---- MODULE Spec2Model ----
(***************************************************************************)
(* Verification model of the form auto-fill extension.                     *)
(*                                                                         *)
(*   - the chain controller, AutoFillBackground.fillFormWithProfile        *)
(*     (src/background.js, and the second copy of the class that is kept   *)
(*     at the end of src/content.js), with the profile store it reads;     *)
(*   - the page side: the content script's message listener and the fill   *)
(*     orchestrator fillFormWithProfile / fillSingleField /                *)
(*     fillFieldByType with the timers they start (src/content.js).        *)
(*                                                                         *)
(* Spec      : chain runs of the controller against the profile store.     *)
(* SpecPage  : fill requests handled by one page.                          *)
(* SpecLocate: one call of findFieldElement against a document.            *)
(* SpecDate  : formatDateForInput on a raw date, and on its own result.    *)
(* SpecFill  : fillFieldByType on one element, with the values written.    *)
(* SpecText  : calculateSimilarity and isFuzzyMatch on pairs of strings.   *)
(* SpecRadio : selectRadioOptionInContainer on a group of options.         *)
(* SpecEditor: the profile editor saving, reloading and deleting profiles   *)
(*             (src/unnamed/part_000).                                     *)
(* SpecTab   : one chain run together with the page of its tab.            *)
(* SpecLive  : one chain run under fair scheduling of its callbacks.       *)
(***************************************************************************)
EXTENDS Integers, Sequences, FiniteSets, TLC

(***************************************************************************)
(* Bounds of the model                                                     *)
(***************************************************************************)
\* profile ids 1..NumProfiles can be stored
NumProfiles == 12
\* a second (sibling) chain run is started only on stores of at most this size
MaxSiblingGraph == 2
\* deleteProfile requests served in one behaviour
MaxDeletes == 1
\* fill requests a page receives in one behaviour
MaxRequests == 2

(***************************************************************************)
(* Program constants                                                       *)
(***************************************************************************)
\* background.js:251  if (chainContext.depth >= 10)
MaxChainDepth == 10

ProfileIds == 1..NumProfiles
\* an id that is never stored: a reference to it dangles
GhostId == NumProfiles + 1
AllIds == 1..GhostId
\* nextProfileId absent (undefined, null or '': all falsy at background.js:280)
NoNext == 0

(***************************************************************************)
(* Page side: pure part of src/content.js                                  *)
(***************************************************************************)
\* What the live document offers for one field (the environment of a fill):
\*   missing       no candidate locator resolves: findFieldElement returns null
\*   resolveThrows resolution raises inside fillSingleField's try block
\*   ok            a plain element is found, every DOM interaction works and
\*                 (for a radio group) an option matches
\*   dateLike      as ok, and the element's id contains 'datepicker' or it is
\*                 a role=combobox element whose placeholder contains 'date'
\*   throwsOnUse   an element is found but focus()/click() on it raise
\*   noOption      an element is found, no radio option matches the value
ElemStates == {"missing", "resolveThrows", "ok", "dateLike", "throwsOnUse", "noOption"}

\* fillTextInput: true unless an interaction raises (caught, false)
fillTextInput(el) == el # "throwsOnUse"

\* fillDateInput: first click, then the timers are started and true is
\* returned; an exception falls back to fillTextInput
fillDateInput(el) ==
    IF el = "throwsOnUse"
    THEN [ok |-> fillTextInput(el), dateSeq |-> FALSE]
    ELSE [ok |-> TRUE, dateSeq |-> TRUE]

\* fillRadioButton: the result of selectRadioOptionInContainer, false on throw
fillRadioButton(el) == el \in {"ok", "dateLike"}

fillCheckbox(el) == FALSE

fillSelect(el) == FALSE

clickButton(el) == el # "throwsOnUse"

\* fillFieldByType: date detection first, then the switch on the field type
fillFieldByType(el, fieldConfig) ==
    LET isDateField == fieldConfig.type = "date" \/ el = "dateLike"
    IN  IF isDateField THEN fillDateInput(el)
        ELSE CASE fieldConfig.type \in {"text", "textarea"} ->
                      [ok |-> fillTextInput(el), dateSeq |-> FALSE]
               [] fieldConfig.type = "radio" ->
                      [ok |-> fillRadioButton(el), dateSeq |-> FALSE]
               [] fieldConfig.type = "checkbox" ->
                      [ok |-> fillCheckbox(el), dateSeq |-> FALSE]
               [] fieldConfig.type = "select" ->
                      [ok |-> fillSelect(el), dateSeq |-> FALSE]
               [] fieldConfig.type = "button" ->
                      [ok |-> clickButton(el), dateSeq |-> FALSE]
               [] OTHER -> [ok |-> fillTextInput(el), dateSeq |-> FALSE]

\* fillSingleField: locate, fill, and turn every failure and exception into
\* a result for this field
fillSingleField(fieldConfig, el) ==
    IF el = "resolveThrows"
    THEN [success |-> FALSE, error |-> "exception", dateSeq |-> FALSE]
    ELSE IF el = "missing"
    THEN [success |-> FALSE, error |-> "Element not found", dateSeq |-> FALSE]
    ELSE LET fillResult == fillFieldByType(el, fieldConfig)
         IN  IF fillResult.ok
             THEN [success |-> TRUE, error |-> "", dateSeq |-> fillResult.dateSeq]
             ELSE [success |-> FALSE, error |-> "Failed to fill field",
                   dateSeq |-> fillResult.dateSeq]

\* variant: the loop ends at the first field that is not filled
RECURSIVE forEachFieldStopAtFailure(_, _, _, _)
forEachFieldStopAtFailure(fields, env, i, acc) ==
    IF i > Len(fields) THEN acc
    ELSE LET result == fillSingleField(fields[i], env[i])
             entry  == [field |-> fields[i].name, success |-> result.success,
                        error |-> result.error]
             acc2   == [fieldsFound  |-> acc.fieldsFound + 1,
                        fieldsFilled |-> acc.fieldsFilled + (IF result.success THEN 1 ELSE 0),
                        results      |-> Append(acc.results, entry),
                        dateSeqs     |-> acc.dateSeqs + (IF result.dateSeq THEN 1 ELSE 0)]
         IN  IF result.success
             THEN forEachFieldStopAtFailure(fields, env, i + 1, acc2)
             ELSE acc2

\* the body of profile.fields.forEach in fillFormWithProfile
RECURSIVE forEachField(_, _, _, _)
forEachField(fields, env, i, acc) ==
    IF i > Len(fields) THEN acc
    ELSE LET result == fillSingleField(fields[i], env[i])
             entry  == [field |-> fields[i].name, success |-> result.success,
                        error |-> result.error]
         IN  forEachField(fields, env, i + 1,
                 [fieldsFound  |-> acc.fieldsFound + 1,
                  fieldsFilled |-> acc.fieldsFilled + (IF result.success THEN 1 ELSE 0),
                  results      |-> Append(acc.results, entry),
                  dateSeqs     |-> acc.dateSeqs + (IF result.dateSeq THEN 1 ELSE 0)])

\* variant: success reports that fields were processed, not that one was filled
fillFormWithProfileFound(profile, env) ==
    LET acc == forEachField(profile.fields, env, 1,
                   [fieldsFound |-> 0, fieldsFilled |-> 0, results |-> << >>,
                    dateSeqs |-> 0])
    IN  [report   |-> [kind    |-> "report",
                       success |-> acc.fieldsFound > 0,
                       filled  |-> acc.fieldsFilled,
                       total   |-> acc.fieldsFound,
                       results |-> acc.results,
                       error   |-> ""],
         nextTimer |-> acc.fieldsFilled > 0,
         dateSeqs  |-> acc.dateSeqs]

\* variant: the clickNextButton timer is started whatever was filled
fillFormWithProfileAlwaysNext(profile, env) ==
    LET acc == forEachField(profile.fields, env, 1,
                   [fieldsFound |-> 0, fieldsFilled |-> 0, results |-> << >>,
                    dateSeqs |-> 0])
    IN  [report   |-> [kind    |-> "report",
                       success |-> acc.fieldsFilled > 0,
                       filled  |-> acc.fieldsFilled,
                       total   |-> acc.fieldsFound,
                       results |-> acc.results,
                       error   |-> ""],
         nextTimer |-> TRUE,
         dateSeqs  |-> acc.dateSeqs]

\* fillFormWithProfile of the content script: the report it returns and the
\* timers it has started when it returns
fillFormWithProfile(profile, env) ==
    LET acc == forEachField(profile.fields, env, 1,
                   [fieldsFound |-> 0, fieldsFilled |-> 0, results |-> << >>,
                    dateSeqs |-> 0])
    IN  [report   |-> [kind    |-> "report",
                       success |-> acc.fieldsFilled > 0,
                       filled  |-> acc.fieldsFilled,
                       total   |-> acc.fieldsFound,
                       results |-> acc.results,
                       error   |-> ""],
         nextTimer |-> acc.fieldsFilled > 0,
         dateSeqs  |-> acc.dateSeqs]

ErrorResponse(msg) ==
    [kind |-> "error", success |-> FALSE, filled |-> 0, total |-> 0,
     results |-> << >>, error |-> msg]

\* actions of the listener's switch that are not the fill
OtherActions == {"detectFields", "showNotification", "showDetectedFields", "showHelpOverlay"}

\* chrome.runtime.onMessage listener of the content script
Listener(request, env) ==
    IF request.action = "fillFormAdvanced"
    THEN fillFormWithProfile(request.profile, env)
    ELSE IF request.action \in OtherActions
    THEN [report |-> [kind |-> "ack", success |-> TRUE, filled |-> 0, total |-> 0,
                      results |-> << >>, error |-> ""],
          nextTimer |-> FALSE, dateSeqs |-> 0]
    ELSE [report |-> ErrorResponse("Unknown action"), nextTimer |-> FALSE, dateSeqs |-> 0]

(***************************************************************************)
(* Background side: the profile store and the chain controller             *)
(***************************************************************************)
VARIABLES
    build,      \* which copy of AutoFillBackground is loaded
    profiles,   \* this.profiles: stored profile id -> profile object
    heap,       \* the Set objects created for chain contexts, by object id
    run,        \* per chain run: the state of its fillFormWithProfile calls
    deletes,    \* number of deleteProfile requests served
    \* one page handling fill requests (SpecPage)
    exchange,   \* the latest request the listener answered, with its response
    served,     \* number of requests the listener has answered
    okFills,    \* number of reports returned with filled > 0
    nextTimers, \* pending clickNextButton timers
    dateTimers, \* pending date sequences: step -> number of timers waiting
    nextClicks, \* outcomes of the clickNextButton attempts, in order
    \* one call of a helper of the content script (SpecLocate, SpecDate, ...)
    call        \* the call: its arguments, its position and what it returned

vars == <<build, profiles, heap, run, deletes, exchange, served, okFills, nextTimers,
          dateTimers, nextClicks, call>>
chainVars == <<build, profiles, heap, run, deletes>>
pageVars == <<exchange, served, okFills, nextTimers, dateTimers, nextClicks>>

Runs == 1..2
Tabs == 1..2
Builds == {"background.js", "content.js"}

\* action: 'fillForm' (background.js:266), 'fillFormAdvanced' (content.js:1925)
SentAction(b) == IF b = "background.js" THEN "fillForm" ELSE "fillFormAdvanced"

\* the field lists of the stored profiles
FieldsFor(id) ==
    IF id % 2 = 1
    THEN << [name |-> "Email", type |-> "text", value |-> "a@b.com"] >>
    ELSE << [name |-> "Answer", type |-> "radio", value |-> "Yes"],
            [name |-> "Country", type |-> "select", value |-> "PL"] >>

\* a store of profiles 1..n chained 1 -> 2 -> ... -> n -> target
ChainStore(n, target) ==
    [id \in 1..n |->
        [id |-> id,
         nextProfileId |-> IF id < n THEN id + 1 ELSE target,
         fields |-> FieldsFor(id),
         usageCount |-> 0]]

ErrNotFound == "Profile not found"
ErrCircular == "Circular chain detected"
ErrTooLong  == "Chain too long"

IdleRun(enabled) ==
    [pc |-> IF enabled THEN "idle" ELSE "off",
     tab |-> 1,
     ctxs |-> << >>,        \* the ChainContext objects of the run's calls
     hopId |-> 0,           \* profileId argument of the latest call
     profile |-> [id |-> 0, nextProfileId |-> NoNext, fields |-> << >>, usageCount |-> 0],
     outcome |-> "",        \* error of the latest call's return value
     notice |-> "",         \* warning notification shown by the latest call
     lastResp |-> [kind |-> "none", success |-> FALSE, filled |-> 0],
     executed |-> << >>,    \* profile ids a fill request was sent for
     allOk |-> TRUE]        \* every response so far had success = true

\* new Set() of the default chainContext argument: a fresh object
DefaultVisitedRef(h) == Len(h) + 1

\* variant: the continuation passes chainContext.visited itself
NextVisitedRefShared(h, cur) == cur

\* new Set(chainContext.visited) of the continuation: a fresh object
NextVisitedRef(h, cur) == Len(h) + 1

AllocSet(h, ref, content) == IF ref = Len(h) + 1 THEN Append(h, content) ELSE h

Last(s) == s[Len(s)]

\* variant: the visited set is not consulted
EntryCheckNoCycle(found, visited, depth, profileId) ==
    IF ~found THEN ErrNotFound
    ELSE IF depth >= MaxChainDepth THEN ErrTooLong
    ELSE ""

\* variant: the depth limit is compared with > instead of >=
EntryCheckOffByOne(found, visited, depth, profileId) ==
    IF ~found THEN ErrNotFound
    ELSE IF profileId \in visited THEN ErrCircular
    ELSE IF depth > MaxChainDepth THEN ErrTooLong
    ELSE ""

\* variant: the depth limit is checked before the visited set
EntryCheckDepthFirst(found, visited, depth, profileId) ==
    IF ~found THEN ErrNotFound
    ELSE IF depth >= MaxChainDepth THEN ErrTooLong
    ELSE IF profileId \in visited THEN ErrCircular
    ELSE ""

\* the checks at the head of fillFormWithProfile, in the order of the code
EntryCheck(found, visited, depth, profileId) ==
    IF ~found THEN ErrNotFound
    ELSE IF profileId \in visited THEN ErrCircular
    ELSE IF depth >= MaxChainDepth THEN ErrTooLong
    ELSE ""

NoticeOf(err) ==
    IF err = ErrCircular THEN "Wykryto cykliczny lancuch profili - zatrzymano"
    ELSE IF err = ErrTooLong THEN "Lancuch profili za dlugi - zatrzymano"
    ELSE ""

\* fillFormWithProfile(profileId, tabId, chainContext) up to its await:
\* ref is the Set object of chainContext.visited in heap h1
Enter(r, profileId, tabId, ref, depth, h1) ==
    LET found == profileId \in DOMAIN profiles
        err   == EntryCheck(found, h1[ref], depth, profileId)
        ctx   == [visited |-> ref, depth |-> depth, passed |-> h1[ref]]
        base  == [run[r] EXCEPT !.tab = tabId, !.hopId = profileId,
                                !.ctxs = Append(@, ctx)]
    IN  IF err # ""
        THEN /\ run' = [run EXCEPT ![r] = [base EXCEPT !.pc = "done",
                                                       !.outcome = err,
                                                       !.notice = NoticeOf(err)]]
             /\ heap' = h1
        ELSE /\ heap' = [h1 EXCEPT ![ref] = @ \cup {profileId}]
             /\ run' = [run EXCEPT ![r] = [base EXCEPT !.pc = "awaiting",
                                                       !.profile = profiles[profileId],
                                                       !.outcome = "",
                                                       !.notice = "",
                                                       !.executed = Append(@, profileId)]]

StartIds == {1, 2, GhostId}

\* an external caller (message, shortcut, context menu) starts a chain run
StartRun(r) ==
    /\ run[r].pc = "idle"
    /\ \E profileId \in StartIds, tabId \in (IF r = 1 THEN {1} ELSE Tabs) :
          LET ref == DefaultVisitedRef(heap)
          IN  Enter(r, profileId, tabId, ref, 0, AllocSet(heap, ref, {}))
    /\ UNCHANGED <<build, profiles, deletes, pageVars, call>>

\* logProfileUsage of the content.js copy of the class
logProfileUsage(ps, profileId) ==
    IF profileId \in DOMAIN ps
    THEN [ps EXCEPT ![profileId].usageCount = @ + 1]
    ELSE ps

\* variant: the continuation is scheduled whatever response.success is
AfterResponseAlways(r, response) ==
    LET cont == run[r].profile.nextProfileId # NoNext
    IN  /\ run' = [run EXCEPT ![r].pc = IF cont THEN "timer" ELSE "done",
                              ![r].outcome = response.error,
                              ![r].lastResp = [kind |-> response.kind,
                                               success |-> response.success,
                                               filled |-> response.filled],
                              ![r].allOk = @ /\ response.success]
        /\ profiles' = IF response.success /\ build = "content.js"
                       THEN logProfileUsage(profiles, run[r].hopId)
                       ELSE profiles

\* variant: a response without success leaves the request outstanding
AfterResponseAwaitsSuccess(r, response) ==
    LET cont == response.success /\ run[r].profile.nextProfileId # NoNext
    IN  /\ run' = [run EXCEPT ![r].pc = IF ~response.success THEN "awaiting"
                                        ELSE IF cont THEN "timer" ELSE "done",
                              ![r].outcome = response.error,
                              ![r].lastResp = [kind |-> response.kind,
                                               success |-> response.success,
                                               filled |-> response.filled],
                              ![r].allOk = @ /\ response.success]
        /\ profiles' = IF response.success /\ build = "content.js"
                       THEN logProfileUsage(profiles, run[r].hopId)
                       ELSE profiles

\* the part of fillFormWithProfile after the await: response is what the
\* sendMessage callback resolved with
AfterResponse(r, response) ==
    LET cont == response.success /\ run[r].profile.nextProfileId # NoNext
    IN  /\ run' = [run EXCEPT ![r].pc = IF cont THEN "timer" ELSE "done",
                              ![r].outcome = response.error,
                              ![r].lastResp = [kind |-> response.kind,
                                               success |-> response.success,
                                               filled |-> response.filled],
                              ![r].allOk = @ /\ response.success]
        /\ profiles' = IF response.success /\ build = "content.js"
                       THEN logProfileUsage(profiles, run[r].hopId)
                       ELSE profiles

\* the page answers the fill request of run r
OnResponse(r) ==
    /\ run[r].pc = "awaiting"
    /\ LET request == [action |-> SentAction(build), profile |-> run[r].profile]
       IN  \E env \in [1..Len(run[r].profile.fields) -> ElemStates] :
              AfterResponse(r, Listener(request, env).report)
    /\ UNCHANGED <<build, heap, deletes, pageVars, call>>

\* the callback gets no response object
OnNoResponse(r) ==
    /\ run[r].pc = "awaiting"
    /\ AfterResponse(r, ErrorResponse("No response from content script"))
    /\ UNCHANGED <<build, heap, deletes, pageVars, call>>

\* chrome.runtime.lastError is set: the promise rejects, the catch returns
OnLastError(r) ==
    /\ run[r].pc = "awaiting"
    /\ run' = [run EXCEPT ![r].pc = "done", ![r].outcome = "lastError",
                          ![r].lastResp = [kind |-> "lastError", success |-> FALSE,
                                           filled |-> 0],
                          ![r].allOk = FALSE]
    /\ UNCHANGED <<build, profiles, heap, deletes, pageVars, call>>

\* the setTimeout callback of the continuation
TimerFires(r) ==
    /\ run[r].pc = "timer"
    /\ LET chainContext == Last(run[r].ctxs)
           ref == NextVisitedRef(heap, chainContext.visited)
       IN  Enter(r, run[r].profile.nextProfileId, run[r].tab, ref,
                 chainContext.depth + 1,
                 AllocSet(heap, ref, heap[chainContext.visited]))
    /\ UNCHANGED <<build, profiles, deletes, pageVars, call>>

\* variant: deletion also clears the references to the deleted profile
deleteProfileCascade(ps, profileId) ==
    [id \in DOMAIN ps \ {profileId} |->
        IF ps[id].nextProfileId = profileId
        THEN [ps[id] EXCEPT !.nextProfileId = NoNext]
        ELSE ps[id]]

\* deleteProfile: findIndex and splice
deleteProfile(ps, profileId) ==
    [id \in DOMAIN ps \ {profileId} |-> ps[id]]

\* the ids a deleteProfile request names
DeletableIds == {1, 2, 3, GhostId}

DeleteProfile ==
    /\ deletes < MaxDeletes
    /\ \E profileId \in DeletableIds :
          profiles' = deleteProfile(profiles, profileId)
    /\ deletes' = deletes + 1
    /\ UNCHANGED <<build, heap, run, pageVars, call>>

NoExchange ==
    [action |-> "", fields |-> << >>, env |-> << >>, pending |-> FALSE,
     report |-> [kind |-> "none", success |-> FALSE, filled |-> 0, total |-> 0,
                 results |-> << >>, error |-> ""]]

NoCall == [op |-> "none"]

PageIdle ==
    /\ call = NoCall
    /\ exchange = NoExchange
    /\ served = 0
    /\ okFills = 0
    /\ nextTimers = 0
    /\ dateTimers = [step \in 2..4 |-> 0]
    /\ nextClicks = << >>

Targets(n) == {NoNext, GhostId} \cup {t \in 1..2 : t <= n}

Init ==
    /\ build \in Builds
    /\ \E n \in ProfileIds : \E target \in Targets(n) :
          /\ profiles = ChainStore(n, target)
          /\ run = [r \in Runs |-> IdleRun(r = 1 \/ n <= MaxSiblingGraph)]
    /\ heap = << >>
    /\ deletes = 0
    /\ PageIdle

Next ==
    \/ \E r \in Runs : StartRun(r)
    \/ \E r \in Runs : OnResponse(r)
    \/ \E r \in Runs : OnNoResponse(r)
    \/ \E r \in Runs : OnLastError(r)
    \/ \E r \in Runs : TimerFires(r)
    \/ DeleteProfile

Spec == Init /\ [][Next]_vars

\* the callback of sendMessage is called for every request, with a response
\* or with lastError set, and a timer that was started fires
Fairness ==
    \A r \in Runs :
        /\ WF_vars(OnLastError(r) \/ OnNoResponse(r) \/ OnResponse(r))
        /\ WF_vars(TimerFires(r))

\* one chain run on every profile graph of Init
InitLive ==
    /\ build \in Builds
    /\ \E n \in ProfileIds : \E target \in Targets(n) : profiles = ChainStore(n, target)
    /\ run = [r \in Runs |-> IdleRun(r = 1)]
    /\ heap = << >>
    /\ deletes = 0
    /\ PageIdle

\* the steps of the run, the store being left alone
NextLive ==
    \/ \E r \in Runs : StartRun(r)
    \/ \E r \in Runs : OnLastError(r)
    \/ \E r \in Runs : OnNoResponse(r)
    \/ \E r \in Runs : OnResponse(r)
    \/ \E r \in Runs : TimerFires(r)

SpecLive == InitLive /\ [][NextLive]_vars /\ Fairness

(***************************************************************************)
(* One page: the content script handling requests, and its timers          *)
(***************************************************************************)
\* the profiles sent to the page
PageProfiles ==
    { [name |-> "empty", fields |-> << >>],
      [name |-> "contact", fields |->
          << [name |-> "Email", type |-> "text", value |-> "a@b.com"] >>],
      [name |-> "survey", fields |->
          << [name |-> "Answer", type |-> "radio", value |-> "Yes"],
             [name |-> "Country", type |-> "select", value |-> "PL"] >>],
      [name |-> "booking", fields |->
          << [name |-> "Birth", type |-> "date", value |-> "3/5/2024"],
             [name |-> "Nonexistent", type |-> "text", value |-> "x"] >>],
      [name |-> "consent", fields |->
          << [name |-> "Agree", type |-> "checkbox", value |-> "true"] >>] }

\* the states of the document a request can meet; only the fill looks at it
PageEnvs(action, profile) ==
    IF action = "fillFormAdvanced"
    THEN [1..Len(profile.fields) -> ElemStates]
    ELSE {[i \in 1..Len(profile.fields) |-> "ok"]}

\* the action names requests carry
PageActions == {"fillFormAdvanced", "fillForm", "detectFields"}

\* a fill that has started timers which have not fired yet
FillPending == nextTimers > 0 \/ \E step \in 2..4 : dateTimers[step] > 0

\* the listener is invoked with a request; everything up to sendResponse and
\* the return of fillFormWithProfile happens in this one event
OnMessage ==
    /\ served < MaxRequests
    /\ \E action \in PageActions, profile \in PageProfiles :
       \E env \in PageEnvs(action, profile) :
          LET out == Listener([action |-> action, profile |-> profile], env)
          IN  /\ exchange' = [action |-> action, fields |-> profile.fields, env |-> env,
                               pending |-> FillPending, report |-> out.report]
              /\ served' = served + 1
              /\ okFills' = okFills + (IF out.report.kind = "report" /\ out.report.filled > 0
                                       THEN 1 ELSE 0)
              /\ nextTimers' = nextTimers + (IF out.nextTimer THEN 1 ELSE 0)
              /\ dateTimers' = [dateTimers EXCEPT ![2] = @ + out.dateSeqs]
    /\ UNCHANGED <<nextClicks, chainVars, call>>

\* a timer of fillDateInput fires: step 2 second click, step 3 assign the
\* value and dispatch input/change, step 4 Enter, Tab and blur
DateTimerFires(step) ==
    /\ dateTimers[step] > 0
    /\ dateTimers' = IF step < 4
                     THEN [dateTimers EXCEPT ![step] = @ - 1, ![step + 1] = @ + 1]
                     ELSE [dateTimers EXCEPT ![step] = @ - 1]
    /\ UNCHANGED <<exchange, served, okFills, nextTimers, nextClicks, chainVars, call>>

\* what the page offers to clickNextButton
ButtonStates == {"button", "noButton", "notVisible", "throws"}

\* clickNextButton: true only when a visible button was found and clicked
clickNextButton(b) == b = "button"

\* the setTimeout callback started by fillFormWithProfile
NextTimerFires ==
    /\ nextTimers > 0
    /\ \E b \in ButtonStates :
          nextClicks' = Append(nextClicks, clickNextButton(b))
    /\ nextTimers' = nextTimers - 1
    /\ UNCHANGED <<exchange, served, okFills, dateTimers, chainVars, call>>

InitPage ==
    /\ build = "content.js"
    /\ profiles = ChainStore(1, NoNext)
    /\ run = [r \in Runs |-> IdleRun(FALSE)]
    /\ heap = << >>
    /\ deletes = 0
    /\ PageIdle

NextPage ==
    \/ OnMessage
    \/ \E step \in 2..4 : DateTimerFires(step)
    \/ NextTimerFires

SpecPage == InitPage /\ [][NextPage]_vars

(***************************************************************************)
(* Properties of the chain controller (checked under Spec)                 *)
(***************************************************************************)
NoDup(seq) == \A i, j \in 1..Len(seq) : i # j => seq[i] # seq[j]

\* length of the nextProfileId cycle through start in the store, 0 if none
RECURSIVE WalkBack(_, _, _)
WalkBack(cur, start, k) ==
    IF k > NumProfiles + 1 THEN 0
    ELSE IF cur = start THEN k
    ELSE IF cur \notin DOMAIN profiles THEN 0
    ELSE WalkBack(profiles[cur].nextProfileId, start, k + 1)

CycleLength(start) ==
    IF start \notin DOMAIN profiles THEN 0
    ELSE WalkBack(profiles[start].nextProfileId, start, 1)

\* run r has ended, was started on a cycle, every fill succeeded and no
\* deleteProfile was served meanwhile
CycleRunDone(r) ==
    /\ run[r].pc = "done"
    /\ deletes = 0
    /\ run[r].allOk
    /\ Len(run[r].executed) >= 1
    /\ CycleLength(run[r].executed[1]) > 0

\* C1 as stated: a run never sends a fill request for the same profile id
\* twice, and on a cycle of length k with every fill succeeding it sends
\* exactly k requests and ends with the circular-chain outcome.
C1_AsStated ==
    \A r \in Runs :
        /\ NoDup(run[r].executed)
        /\ CycleRunDone(r) =>
              /\ Len(run[r].executed) = CycleLength(run[r].executed[1])
              /\ run[r].outcome = ErrCircular

\* C1 amended: a run never sends a fill request for the same profile id
\* twice; on a cycle of length k <= 10 through the start profile with every
\* fill succeeding it sends exactly k requests and ends with the
\* circular-chain outcome, and on a longer cycle it sends exactly 10 and ends
\* with the chain-too-long outcome.
C1_NoRepeatAndCycle ==
    \A r \in Runs :
        /\ NoDup(run[r].executed)
        /\ CycleRunDone(r) =>
              LET k == CycleLength(run[r].executed[1])
              IN  IF k <= MaxChainDepth
                  THEN Len(run[r].executed) = k /\ run[r].outcome = ErrCircular
                  ELSE Len(run[r].executed) = MaxChainDepth /\ run[r].outcome = ErrTooLong

\* a run on the two-cycle 1 -> 2 -> 1 has executed 1 then 2 and stopped
C1_Witness ==
    \E r \in Runs :
        /\ CycleRunDone(r)
        /\ CycleLength(run[r].executed[1]) = 2
        /\ run[r].executed = <<1, 2>>
        /\ run[r].outcome = ErrCircular

\* C2: a run sends at most 10 fill requests, and the call made with depth 10
\* returns without sending one.
C2_AtMostTen ==
    \A r \in Runs :
        /\ Len(run[r].executed) <= MaxChainDepth
        /\ (Len(run[r].ctxs) > 0 /\ Last(run[r].ctxs).depth >= MaxChainDepth) =>
              /\ run[r].pc = "done"
              /\ Len(run[r].executed) = Len(run[r].ctxs) - 1

\* a run was stopped by the depth limit after ten executions
C2_Witness ==
    \E r \in Runs :
        /\ run[r].outcome = ErrTooLong
        /\ Len(run[r].executed) = MaxChainDepth
        /\ Last(run[r].ctxs).depth = MaxChainDepth

\* C3: when the response to a fill request is handled, the continuation
\* timer is started if and only if the response is a fill report with at
\* least one filled field and the executed profile has a nextProfileId.
C3_ContinuationIff ==
    [][\A r \in Runs :
          (run[r].pc = "awaiting" /\ run'[r].pc # "awaiting") =>
              ((run'[r].pc = "timer") <=>
                  /\ run'[r].lastResp.kind = "report"
                  /\ run'[r].lastResp.filled > 0
                  /\ run[r].profile.nextProfileId # NoNext)]_vars

\* a continuation is pending after a report with a filled field
C3_Witness ==
    \E r \in Runs :
        /\ run[r].pc = "timer"
        /\ run[r].lastResp.kind = "report"
        /\ run[r].lastResp.filled > 0
        /\ run[r].profile.nextProfileId # NoNext

\* C4 as stated: a call whose profileId is in the visited set it was given
\* ends with the circular-chain outcome, and a call with depth >= 10 ends
\* with the chain-too-long outcome.
C4_AsStated ==
    \A r \in Runs :
        Len(run[r].ctxs) > 0 =>
            LET c == Last(run[r].ctxs)
            IN  /\ run[r].hopId \in c.passed =>
                      run[r].pc = "done" /\ run[r].outcome = ErrCircular
                /\ c.depth >= MaxChainDepth =>
                      run[r].pc = "done" /\ run[r].outcome = ErrTooLong

\* C4 amended: the checks run in the order stored, visited, depth.  A call
\* for a stored profile whose id is in the visited set ends with the
\* circular-chain outcome; a call for a stored, unvisited profile with
\* depth >= 10 ends with the chain-too-long outcome; a call for an id that is
\* not stored ends with the not-found outcome.  In all three cases no fill
\* request is sent and no continuation is started, and the outcomes differ.
C4_TerminalChecks ==
    [][\A r \in Runs :
          (run[r].pc \in {"idle", "timer"} /\ run'[r] # run[r]) =>
              LET c       == Last(run'[r].ctxs)
                  id      == run'[r].hopId
                  found   == id \in DOMAIN profiles
                  aborted == /\ run'[r].pc = "done"
                             /\ run'[r].executed = run[r].executed
              IN  /\ (found /\ id \in c.passed) =>
                        /\ aborted
                        /\ run'[r].outcome = ErrCircular
                        /\ run'[r].notice = NoticeOf(ErrCircular)
                  /\ (found /\ id \notin c.passed /\ c.depth >= MaxChainDepth) =>
                        /\ aborted
                        /\ run'[r].outcome = ErrTooLong
                        /\ run'[r].notice = NoticeOf(ErrTooLong)
                  /\ ~found => aborted /\ run'[r].outcome = ErrNotFound
                  /\ ErrCircular # ErrTooLong
                  /\ NoticeOf(ErrCircular) # NoticeOf(ErrTooLong)]_vars

\* a call made with depth 10 for a visited profile ended as a circular chain
C4_Witness ==
    \E r \in Runs :
        /\ run[r].pc = "done"
        /\ run[r].outcome = ErrCircular
        /\ Last(run[r].ctxs).depth >= MaxChainDepth
        /\ run[r].hopId \in Last(run[r].ctxs).passed

\* C5 as stated: the visited set of a ChainContext passed to
\* fillFormWithProfile still has the contents it was passed with.
C5_AsStated ==
    \A r \in Runs :
        \A i \in 1..Len(run[r].ctxs) :
            heap[run[r].ctxs[i].visited] = run[r].ctxs[i].passed

\* C5 amended: a call adds profileId in place to the visited set it was
\* passed, and that set is always an object created for this call (the
\* default argument's new Set, or the copy made by the continuation): no Set
\* object that existed before the step, of an earlier call of the run or of a
\* sibling run, is modified, and no two contexts share a Set.
C5_VisitedFrame ==
    [][/\ \A i \in 1..Len(heap) : heap'[i] = heap[i]
       /\ \A r \in Runs :
             Len(run'[r].ctxs) > Len(run[r].ctxs) =>
                 LET c == Last(run'[r].ctxs)
                 IN  /\ c.visited > Len(heap)
                     /\ \A q \in Runs : \A j \in 1..Len(run[q].ctxs) :
                            run[q].ctxs[j].visited # c.visited
                     /\ heap'[c.visited] =
                            IF run'[r].pc = "awaiting"
                            THEN c.passed \cup {run'[r].hopId}
                            ELSE c.passed]_vars

\* two runs are under way, one in its second call, and the set passed to
\* that call has been added to
C5_Witness ==
    \E r, q \in Runs :
        /\ r # q
        /\ Len(run[r].ctxs) >= 2
        /\ run[r].pc = "awaiting"
        /\ run[q].pc \in {"awaiting", "timer"}
        /\ heap[Last(run[r].ctxs).visited] # Last(run[r].ctxs).passed
        /\ heap[Last(run[q].ctxs).visited] # heap[Last(run[r].ctxs).visited]

\* C6: a call for a profile id that is not stored returns the not-found
\* result without sending a fill request and without changing the store,
\* and deleteProfile removes at most the profile with the given id and
\* leaves every other stored profile, its nextProfileId included, as it was.
C6_DanglingTolerated ==
    [][/\ \A r \in Runs :
             (/\ run[r].pc \in {"idle", "timer"}
              /\ run'[r] # run[r]
              /\ run'[r].hopId \notin DOMAIN profiles) =>
                 /\ run'[r].pc = "done"
                 /\ run'[r].outcome = ErrNotFound
                 /\ run'[r].executed = run[r].executed
                 /\ profiles' = profiles
       /\ deletes' # deletes =>
             /\ \E id \in AllIds : DOMAIN profiles' = DOMAIN profiles \ {id}
             /\ \A p \in DOMAIN profiles' : profiles'[p] = profiles[p]]_vars

\* a chain stopped at a successor that had been deleted, which another
\* stored profile still names as its nextProfileId
C6_Witness ==
    \E r \in Runs :
        /\ run[r].pc = "done"
        /\ run[r].outcome = ErrNotFound
        /\ Len(run[r].executed) >= 1
        /\ run[r].hopId # GhostId
        /\ run[r].hopId \notin DOMAIN profiles
        /\ \E p \in DOMAIN profiles : profiles[p].nextProfileId = run[r].hopId

(***************************************************************************)
(* Properties of the page side (checked under SpecPage)                    *)
(***************************************************************************)
\* C7 as stated: a fill request that arrives while an earlier fill still has
\* date steps or its proceed-click pending is dropped: no fill is executed
\* for it and no report is produced.
C7_AsStated ==
    (exchange.action = "fillFormAdvanced" /\ exchange.pending) =>
        exchange.report.kind # "report"

\* the positions of the successful results of a report
Successes(report) == {i \in 1..Len(report.results) : report.results[i].success}

\* C8: a fill request is answered with a report that has one result per
\* field of the profile, in the order of the fields; total is the number of
\* fields, filled the number of successful results, 0 <= filled <= total,
\* and success holds exactly when filled > 0.
C8_ReportShape ==
    exchange.action = "fillFormAdvanced" =>
        LET report == exchange.report
        IN  /\ report.kind = "report"
            /\ Len(report.results) = Len(exchange.fields)
            /\ \A i \in 1..Len(exchange.fields) :
                   report.results[i].field = exchange.fields[i].name
            /\ report.total = Len(exchange.fields)
            /\ report.filled = Cardinality(Successes(report))
            /\ 0 <= report.filled /\ report.filled <= report.total
            /\ report.success <=> report.filled > 0

\* a report for two fields of which exactly the second was filled
C8_Witness ==
    /\ exchange.action = "fillFormAdvanced"
    /\ Len(exchange.fields) = 2
    /\ exchange.report.filled = 1
    /\ exchange.report.results[2].success
    /\ ~exchange.report.results[1].success

\* field f meets document state e and cannot be filled: not located, an
\* exception in resolution or in the DOM calls, or a filler that reports
\* failure
FieldFails(f, e) ==
    \/ e \in {"missing", "resolveThrows", "throwsOnUse"}
    \/ f.type = "radio" /\ e = "noOption"
    \/ f.type \in {"checkbox", "select"} /\ e # "dateLike"

\* C9: a field that is not located, whose filler fails or whose processing
\* raises gets a result with success = false; the fill still returns a report
\* with a result for every field, and every text, date and radio field whose
\* element is present and works is filled whatever happened to the others.
C9_FieldFailureIsolated ==
    exchange.action = "fillFormAdvanced" =>
        /\ exchange.report.kind = "report"
        /\ Len(exchange.report.results) = Len(exchange.fields)
        /\ \A i \in 1..Len(exchange.fields) :
               /\ FieldFails(exchange.fields[i], exchange.env[i]) =>
                      ~exchange.report.results[i].success
               /\ (exchange.env[i] = "ok"
                     /\ exchange.fields[i].type \in {"text", "date", "radio"}) =>
                      exchange.report.results[i].success

\* the first field raised, the second was filled all the same
C9_Witness ==
    /\ exchange.action = "fillFormAdvanced"
    /\ Len(exchange.fields) = 2
    /\ exchange.env[1] \in {"resolveThrows", "throwsOnUse"}
    /\ exchange.env[2] = "ok"
    /\ ~exchange.report.results[1].success
    /\ exchange.report.results[2].success

\* C10: handling a request starts one clickNextButton timer exactly when it
\* returns a report with filled > 0, and none otherwise; no click is
\* attempted within the handling of the request, every attempt is the firing
\* of a timer started by an earlier report, and an attempt, successful or
\* not, leaves the returned report as it was.
C10_ProceedClick ==
    [][/\ served' # served =>
             /\ nextClicks' = nextClicks
             /\ nextTimers' = nextTimers +
                    (IF exchange'.report.kind = "report" /\ exchange'.report.filled > 0
                     THEN 1 ELSE 0)
       /\ nextClicks' # nextClicks =>
             /\ nextTimers > 0
             /\ nextTimers' = nextTimers - 1
             /\ exchange' = exchange
             /\ served' = served
       /\ Len(nextClicks') + nextTimers' = okFills']_vars

\* the click attempt after a successful report found nothing to click
C10_Witness ==
    /\ exchange.report.kind = "report"
    /\ exchange.report.filled > 0
    /\ served = 1
    /\ nextClicks = <<FALSE>>
    /\ nextTimers = 0

(***************************************************************************)
(* Locating the element of a field: findFieldElement (SpecLocate)          *)
(*                                                                         *)
(* A locator string is evaluated against the document.  The document is    *)
(* given by what each evaluation produces: an exception, or the nodes that *)
(* match in document order, each with the verdict of isVisibleAndEditable. *)
(***************************************************************************)
\* generated patterns that match something or throw, per document
MaxHits == 2

Null == [id |-> 0, usable |-> FALSE]
Node(id, usable) == [id |-> id, usable |-> usable]

isVisibleAndEditable(element) == element # Null /\ element.usable

Throws == [throws |-> TRUE, nodes |-> << >>]
Matches(nodes) == [throws |-> FALSE, nodes |-> nodes]

getElementTypeForField(fieldType) ==
    CASE fieldType = "textarea" -> "textarea"
      [] fieldType = "radio" -> "div[@role=\"radio\"]"
      [] fieldType = "checkbox" -> "div[@role=\"checkbox\"]"
      [] fieldType = "select" -> "select | div[@role=\"listbox\"]"
      [] fieldType = "date" -> "input[@type=\"date\"]"
      [] fieldType = "email" -> "input[@type=\"email\"] | input[@type=\"text\"]"
      [] fieldType = "number" -> "input[@type=\"number\"]"
      [] fieldType = "button" ->
            "button | input[@type=\"button\"] | input[@type=\"submit\"] | div[@role=\"button\"]"
      [] OTHER -> "input"

\* variant: the attribute patterns are tried before the label patterns
generateXPathSelectorAttributesFirst(fieldName, fieldType) ==
    LET elementType == getElementTypeForField(fieldType)
        P(anchor, test, step) ==
            [anchor |-> anchor, test |-> test, step |-> step,
             fieldName |-> fieldName, elementType |-> elementType]
    IN  << P("@name", "equals", "self"),
           P("@id", "equals", "self"),
           P("@placeholder", "equals", "self"),
           P("span", "contains-text", "following[1]"),
           P("div", "contains-text", "following[1]"),
           P("td", "contains-text", "following[1]"),
           P("label", "contains-text", "following[1]"),
           P("label", "equals-text", "following-sibling"),
           P("label", "equals-text", "following[1]"),
           P("@name", "equals-lower", "self"),
           P("@id", "equals-lower", "self"),
           P("@placeholder", "contains", "self"),
           P("span", "equals-text", "ancestor-questionItem-child") >>

\* the patterns, by the node whose text or attribute carries the field name,
\* the test on it and the step from it to the element
generateXPathSelector(fieldName, fieldType) ==
    LET elementType == getElementTypeForField(fieldType)
        P(anchor, test, step) ==
            [anchor |-> anchor, test |-> test, step |-> step,
             fieldName |-> fieldName, elementType |-> elementType]
    IN  << P("span", "contains-text", "following[1]"),
           P("div", "contains-text", "following[1]"),
           P("td", "contains-text", "following[1]"),
           P("label", "contains-text", "following[1]"),
           P("label", "equals-text", "following-sibling"),
           P("label", "equals-text", "following[1]"),
           P("@name", "equals", "self"),
           P("@id", "equals", "self"),
           P("@placeholder", "equals", "self"),
           P("@name", "equals-lower", "self"),
           P("@id", "equals-lower", "self"),
           P("@placeholder", "contains", "self"),
           P("span", "equals-text", "ancestor-questionItem-child") >>

\* document.evaluate(xpath, ..., FIRST_ORDERED_NODE_TYPE).singleNodeValue
findElementByXPath(evaluation) ==
    IF evaluation.throws THEN Null
    ELSE IF evaluation.nodes = << >> THEN Null
    ELSE IF isVisibleAndEditable(Head(evaluation.nodes)) THEN Head(evaluation.nodes)
    ELSE Null

\* custom selectors, by the two things the code looks at in their text
NoSelector == ""
startsWithSlash(selector) == selector \in {"//xpath", "//xpath[OPTION_VALUE]"}
includesOptionValue(selector) == selector = "//xpath[OPTION_VALUE]"

\* d.css is what document.querySelector(selector) does with the selector,
\* d.xpath what document.evaluate does with it
findElementBySelector(selector, fieldConfig, d) ==
    IF fieldConfig.type = "radio" /\ includesOptionValue(selector)
    THEN findElementByXPath(d.xpath)
    ELSE IF ~startsWithSlash(selector) /\ d.css.throws THEN Null
    ELSE IF /\ ~startsWithSlash(selector)
            /\ d.css.nodes # << >>
            /\ isVisibleAndEditable(Head(d.css.nodes))
         THEN Head(d.css.nodes)
    ELSE findElementByXPath(d.xpath)

\* variant: a pattern whose evaluation throws ends the search
RECURSIVE tryPatternsStopOnThrow(_, _, _, _)
tryPatternsStopOnThrow(xpathPatterns, d, i, evaluated) ==
    IF i > Len(xpathPatterns)
    THEN [element |-> Null, evaluated |-> evaluated, patternIndex |-> 0]
    ELSE IF d.patterns[i].throws
    THEN [element |-> Null, evaluated |-> Append(evaluated, i), patternIndex |-> 0]
    ELSE LET element == findElementByXPath(d.patterns[i])
         IN  IF element # Null
             THEN [element |-> element, evaluated |-> Append(evaluated, i),
                   patternIndex |-> i]
             ELSE tryPatternsStopOnThrow(xpathPatterns, d, i + 1, Append(evaluated, i))

\* the for loop over xpathPatterns, from index i; ranks are 1-based
RECURSIVE tryPatterns(_, _, _, _)
tryPatterns(xpathPatterns, d, i, evaluated) ==
    IF i > Len(xpathPatterns)
    THEN [element |-> Null, evaluated |-> evaluated, patternIndex |-> 0]
    ELSE LET element == findElementByXPath(d.patterns[i])
         IN  IF element # Null
             THEN [element |-> element, evaluated |-> Append(evaluated, i),
                   patternIndex |-> i]
             ELSE tryPatterns(xpathPatterns, d, i + 1, Append(evaluated, i))

\* mutant: the custom selector decides alone
findFieldElementOverrideOnly(fieldConfig, d) ==
    IF fieldConfig.selector # NoSelector
    THEN [element |-> findElementBySelector(fieldConfig.selector, fieldConfig, d),
          evaluated |-> <<0>>, patternIndex |-> 0]
    ELSE tryPatterns(generateXPathSelector(fieldConfig.name, fieldConfig.type), d, 1, << >>)

\* result: the element returned, the candidates evaluated in order (0 is the
\* custom selector) and the patternIndex stored in autofillSuccessfulPatterns
findFieldElement(fieldConfig, d) ==
    LET xpathPatterns == generateXPathSelector(fieldConfig.name, fieldConfig.type)
        element == findElementBySelector(fieldConfig.selector, fieldConfig, d)
    IN  IF fieldConfig.selector # NoSelector /\ element # Null
        THEN [element |-> element, evaluated |-> <<0>>, patternIndex |-> 0]
        ELSE tryPatterns(xpathPatterns, d, 1,
                         IF fieldConfig.selector # NoSelector THEN <<0>> ELSE << >>)

NumPatterns == Len(generateXPathSelector("Email", "text"))

\* what one evaluation can produce, as the matching nodes in document
\* order; node 9 fails isVisibleAndEditable, and the nodes `behind` can
\* also come after it
Evaluations(ids, behind) ==
    {Throws, Matches(<<Node(9, FALSE)>>)}
        \cup {Matches(<<Node(id, TRUE)>>) : id \in ids}
        \cup {Matches(<<Node(9, FALSE), Node(id, TRUE)>>) : id \in behind}

\* the ranks at which the documents differ: the first pattern and one more
\* of each group (label contains, label equals, attribute, lower-cased
\* attribute, question container)
HitRanks == {1, 4, 5, 7, 10, NumPatterns}

\* documents in which at most k generated patterns match or throw
RECURSIVE PatternDocs(_)
PatternDocs(k) ==
    IF k = 0 THEN {[i \in 1..NumPatterns |-> Matches(<< >>)]}
    ELSE LET less == PatternDocs(k - 1)
         IN  less \cup {[pd EXCEPT ![i] = e] :
                          pd \in less, i \in HitRanks, e \in Evaluations({1, 2}, {1})}

LocateFields ==
    {[name |-> "Email", type |-> "text", selector |-> sel] :
        sel \in {NoSelector, "#css", "//xpath"}}
    \cup {[name |-> "Agree", type |-> "radio", selector |-> "//xpath[OPTION_VALUE]"]}

\* what the custom selector does in the document
SelectorDocs(fieldConfig) ==
    LET all == Evaluations({3}, {3}) \cup {Matches(<< >>)}
    IN  IF fieldConfig.selector = NoSelector
        THEN {[css |-> Matches(<< >>), xpath |-> Matches(<< >>)]}
        ELSE IF startsWithSlash(fieldConfig.selector)
        THEN {[css |-> Throws, xpath |-> x] : x \in all}
        ELSE {[css |-> c, xpath |-> x] : c \in all, x \in {Throws, Matches(<< >>)}}

NoLocated == [element |-> Null, evaluated |-> << >>, patternIndex |-> 0]

\* window.autofillSuccessfulPatterns: the patternIndex stored under each
\* field name; undefined until the first pattern match of the session
Undefined == [defined |-> FALSE, entries |-> << >>]
\* window.autofillSuccessfulPatterns[fieldConfig.name] = {patternIndex: i + 1}
storeSuccessfulPattern(successfulPatterns, fieldConfig, located) ==
    IF located.patternIndex = 0 THEN successfulPatterns
    ELSE [defined |-> TRUE,
          entries |-> SelectSeq(successfulPatterns.entries,
                                LAMBDA e : e.fieldName # fieldConfig.name)
                        \o <<[fieldName |-> fieldConfig.name,
                              patternIndex |-> located.patternIndex]>>]
\* what earlier fills of the session left in the record
PriorPatterns(fieldConfig) ==
    {Undefined,
     [defined |-> TRUE,
      entries |-> <<[fieldName |-> fieldConfig.name, patternIndex |-> NumPatterns]>>]}

InitLocate ==
    /\ \E fieldConfig \in LocateFields : \E sd \in SelectorDocs(fieldConfig) :
       \E pd \in PatternDocs(MaxHits) : \E prior \in PriorPatterns(fieldConfig) :
          call = [op |-> "findFieldElement", done |-> FALSE, fieldConfig |-> fieldConfig,
                  d |-> [css |-> sd.css, xpath |-> sd.xpath, patterns |-> pd],
                  result |-> NoLocated,
                  prior |-> prior, successfulPatterns |-> prior, console |-> << >>]
    /\ exchange = NoExchange
    /\ served = 0
    /\ okFills = 0
    /\ nextTimers = 0
    /\ dateTimers = [step \in 2..4 |-> 0]
    /\ nextClicks = << >>
    /\ build = "content.js"
    /\ profiles = ChainStore(1, NoNext)
    /\ run = [r \in Runs |-> IdleRun(FALSE)]
    /\ heap = << >>
    /\ deletes = 0

\* variant: the pattern recorded for the field is tried before the others
FindFieldElementRecordedFirst ==
    /\ call.op = "findFieldElement"
    /\ ~call.done
    /\ LET hints == {e.patternIndex : e \in
                        {call.successfulPatterns.entries[k] :
                            k \in 1..Len(call.successfulPatterns.entries)}}
           hits == {i \in hints : findElementByXPath(call.d.patterns[i]) # Null}
           located == IF hits = {} THEN findFieldElement(call.fieldConfig, call.d)
                      ELSE LET i == CHOOSE i \in hits : TRUE
                           IN  [element |-> findElementByXPath(call.d.patterns[i]),
                                evaluated |-> <<i>>, patternIndex |-> i]
       IN  call' = [call EXCEPT
                      !.done = TRUE,
                      !.result = located,
                      !.successfulPatterns =
                          storeSuccessfulPattern(@, call.fieldConfig, located)]
    /\ UNCHANGED <<chainVars, pageVars>>

\* fillSingleField calls findFieldElement(fieldConfig)
FindFieldElement ==
    /\ call.op = "findFieldElement"
    /\ ~call.done
    /\ LET located == findFieldElement(call.fieldConfig, call.d)
       IN  call' = [call EXCEPT
                      !.done = TRUE,
                      !.result = located,
                      !.successfulPatterns =
                          storeSuccessfulPattern(@, call.fieldConfig, located)]
    /\ UNCHANGED <<chainVars, pageVars>>

\* fillFormWithProfile, after the fields: the pattern statistics are logged
LogPatternStatistics ==
    /\ call.op = "findFieldElement"
    /\ call.done
    /\ call.console = << >>
    /\ call.successfulPatterns.defined
    /\ call' = [call EXCEPT !.console = call.successfulPatterns.entries]
    /\ UNCHANGED <<chainVars, pageVars>>

NextLocate == FindFieldElement \/ LogPatternStatistics

SpecLocate == InitLocate /\ [][NextLocate]_vars

\* the candidates of a call in rank order: 0 is the custom selector
Candidates(fieldConfig) ==
    (IF fieldConfig.selector # NoSelector THEN <<0>> ELSE << >>)
        \o [i \in 1..NumPatterns |-> i]

\* the element candidate `rank` yields in document d, Null if it yields none
Yield(fieldConfig, d, rank) ==
    IF rank = 0 THEN findElementBySelector(fieldConfig.selector, fieldConfig, d)
    ELSE findElementByXPath(d.patterns[rank])

\* C11: findFieldElement returns the element of the first candidate, in the
\* order [custom selector, generated patterns 1..13], that yields a visible
\* and editable element, and has evaluated exactly the candidates up to that
\* one; a custom selector that yields nothing is followed by the patterns;
\* the result is null only when no candidate yields an element, and then all
\* candidates have been evaluated.
C11_FirstMatchWins ==
    (call.op = "findFieldElement" /\ call.done) =>
        LET cands == Candidates(call.fieldConfig)
            hits == {k \in 1..Len(cands) :
                        Yield(call.fieldConfig, call.d, cands[k]) # Null}
            res == call.result
        IN  IF hits = {}
            THEN res.element = Null /\ res.evaluated = cands
            ELSE LET first == CHOOSE k \in hits : \A j \in hits : k <= j
                 IN  /\ res.element = Yield(call.fieldConfig, call.d, cands[first])
                     /\ res.element # Null
                     /\ res.evaluated = SubSeq(cands, 1, first)

\* the custom selector yields no acceptable element, pattern 4 and a later
\* pattern yield different elements, and the element of pattern 4 is returned
C11_Witness ==
    /\ call.op = "findFieldElement" /\ call.done
    /\ call.fieldConfig.selector = "#css"
    /\ call.d.css = Matches(<<Node(9, FALSE)>>)
    /\ call.d.patterns[4] = Matches(<<Node(2, TRUE)>>)
    /\ call.d.patterns[7] = Matches(<<Node(1, TRUE)>>)
    /\ call.result.element = Node(2, TRUE)
    /\ call.result.evaluated = <<0, 1, 2, 3, 4>>

(***************************************************************************)
(* Properties of the fillers                                               *)
(***************************************************************************)
\* C12 as stated: whatever element a select or checkbox field resolves to,
\* its result has success = false and a report never counts it in filled.
C12_AsStated ==
    (exchange.action = "fillFormAdvanced" /\ exchange.report.kind = "report") =>
        /\ \A i \in 1..Len(exchange.fields) :
               exchange.fields[i].type \in {"select", "checkbox"} =>
                   ~exchange.report.results[i].success
        /\ (\A i \in 1..Len(exchange.fields) :
               exchange.fields[i].type \in {"select", "checkbox"}) =>
                   exchange.report.filled = 0

(***************************************************************************)
(* Strings.  A string is the sequence of its characters.                   *)
(***************************************************************************)
Digits == <<"0", "1", "2", "3", "4", "5", "6", "7", "8", "9">>
isDigit(c) == \E i \in 1..Len(Digits) : Digits[i] = c
digitValue(c) == (CHOOSE i \in 1..Len(Digits) : Digits[i] = c) - 1

\* the value parseInt gives when the string does not start with a digit;
\* every comparison with NaN is false
NaN == -1

RECURSIVE parseDigits(_, _, _)
parseDigits(s, i, acc) ==
    IF i > Len(s) \/ ~isDigit(s[i]) THEN acc
    ELSE parseDigits(s, i + 1, acc * 10 + digitValue(s[i]))

\* parseInt(s) for strings without sign and leading blanks: the number
\* spelled by the leading digits
parseInt(s) == IF s = << >> \/ ~isDigit(s[1]) THEN NaN ELSE parseDigits(s, 1, 0)

\* s.includes(sub)
includes(s, sub) ==
    \E i \in 1..(Len(s) - Len(sub) + 1) : SubSeq(s, i, i + Len(sub) - 1) = sub

UpperCase == <<"A", "B", "D", "E", "M", "N", "O", "S", "T", "Y">>
LowerCase == <<"a", "b", "d", "e", "m", "n", "o", "s", "t", "y">>

\* s.toLowerCase(), on the letters that occur in the model's strings
toLowerCase(s) ==
    [i \in 1..Len(s) |->
        IF \E k \in 1..Len(UpperCase) : UpperCase[k] = s[i]
        THEN LowerCase[CHOOSE k \in 1..Len(UpperCase) : UpperCase[k] = s[i]]
        ELSE s[i]]

\* s.toUpperCase(), on the same letters
toUpperCase(s) ==
    [i \in 1..Len(s) |->
        IF \E k \in 1..Len(LowerCase) : LowerCase[k] = s[i]
        THEN UpperCase[CHOOSE k \in 1..Len(LowerCase) : LowerCase[k] = s[i]]
        ELSE s[i]]

\* s.padStart(2, '0')
padStart2(s) ==
    IF Len(s) >= 2 THEN s ELSE IF Len(s) = 1 THEN <<"0">> \o s ELSE <<"0", "0">>

\* s.replace(/[^\d]/g, '')
removeNonDigits(s) == SelectSeq(s, isDigit)

DateSeparators == {".", "/", "-"}

\* s.split(/[.\/-]/), scanning from position i with the part read so far
RECURSIVE splitParts(_, _, _, _)
splitParts(s, i, cur, parts) ==
    IF i > Len(s) THEN Append(parts, cur)
    ELSE IF s[i] \in DateSeparators
    THEN splitParts(s, i + 1, << >>, Append(parts, cur))
    ELSE splitParts(s, i + 1, Append(cur, s[i]), parts)

\* s.split(/[.\/-]/).filter(part => part.length > 0)
splitDate(s) == SelectSeq(splitParts(s, 1, << >>, << >>), LAMBDA part : Len(part) > 0)

(***************************************************************************)
(* Date conversion: detectDateFormat and formatDateForInput (SpecDate)     *)
(***************************************************************************)
detectDateFormat(placeholder) ==
    LET ph == toLowerCase(placeholder)
    IN  IF includes(ph, <<"m", "/", "d", "/", "y">>)
           \/ includes(ph, <<"m", "m", "/", "d", "d", "/", "y">>) THEN "mdy"
        ELSE IF includes(ph, <<"d", "/", "m", "/", "y">>)
           \/ includes(ph, <<"d", "d", "/", "m", "m", "/", "y">>) THEN "dmy"
        ELSE IF includes(ph, <<"y", "/", "m", "/", "d">>)
           \/ includes(ph, <<"y", "y", "y", "y", "/", "m", "m", "/", "d", "d">>) THEN "ymd"
        ELSE IF includes(ph, <<"d", ".", "m", ".", "y">>)
           \/ includes(ph, <<"d", "d", ".", "m", "m", ".", "y">>) THEN "dmy_dot"
        ELSE IF includes(ph, <<"d", "-", "m", "-", "y">>)
           \/ includes(ph, <<"d", "d", "-", "m", "m", "-", "y">>) THEN "dmy_dash"
        ELSE "mdy"

NoDate == [ok |-> FALSE, day |-> << >>, month |-> << >>, year |-> << >>]

\* variant: only the first part is tested against 12
parseDateFirstPartOnly(dateValue) ==
    LET parts == splitDate(dateValue)
    IN  IF Len(parts) # 3 THEN NoDate
        ELSE IF parseInt(parts[1]) > 12 \/ includes(dateValue, <<".">>)
        THEN [ok |-> TRUE, day |-> padStart2(parts[1]), month |-> padStart2(parts[2]),
              year |-> parts[3]]
        ELSE [ok |-> TRUE, month |-> padStart2(parts[1]), day |-> padStart2(parts[2]),
              year |-> parts[3]]

\* variant: two parts that can both be a month are always read month first
parseDateMonthFirst(dateValue) ==
    LET parts == splitDate(dateValue)
    IN  IF Len(parts) # 3 THEN NoDate
        ELSE IF parseInt(parts[1]) > 12
        THEN [ok |-> TRUE, day |-> padStart2(parts[1]), month |-> padStart2(parts[2]),
              year |-> parts[3]]
        ELSE [ok |-> TRUE, month |-> padStart2(parts[1]), day |-> padStart2(parts[2]),
              year |-> parts[3]]

\* the parsing part of formatDateForInput: day, month and year as read from
\* the value, or ok = FALSE where the function returns ''
parseDate(dateValue) ==
    LET cleanDate == removeNonDigits(dateValue)
    IN  IF \E sep \in DateSeparators : includes(dateValue, <<sep>>)
        THEN LET parts == splitDate(dateValue)
             IN  IF Len(parts) = 3
                 THEN IF parseInt(parts[1]) > 12
                      THEN [ok |-> TRUE, day |-> padStart2(parts[1]),
                            month |-> padStart2(parts[2]), year |-> parts[3]]
                      ELSE IF parseInt(parts[2]) > 12
                      THEN [ok |-> TRUE, month |-> padStart2(parts[1]),
                            day |-> padStart2(parts[2]), year |-> parts[3]]
                      ELSE IF includes(dateValue, <<".">>)
                      THEN [ok |-> TRUE, day |-> padStart2(parts[1]),
                            month |-> padStart2(parts[2]), year |-> parts[3]]
                      ELSE [ok |-> TRUE, month |-> padStart2(parts[1]),
                            day |-> padStart2(parts[2]), year |-> parts[3]]
                 ELSE NoDate
        ELSE IF Len(cleanDate) = 8
        THEN [ok |-> TRUE, day |-> SubSeq(cleanDate, 1, 2), month |-> SubSeq(cleanDate, 3, 4),
              year |-> SubSeq(cleanDate, 5, 8)]
        ELSE IF Len(cleanDate) = 6
        THEN [ok |-> TRUE, day |-> SubSeq(cleanDate, 1, 2), month |-> SubSeq(cleanDate, 3, 4),
              year |-> <<"2", "0">> \o SubSeq(cleanDate, 5, 6)]
        ELSE NoDate

DateFormats == {"mdy", "dmy", "ymd", "dmy_dot", "dmy_dash"}

\* the switch on formatType at the end of formatDateForInput
assembleDate(day, month, year, formatType) ==
    CASE formatType = "mdy" -> month \o <<"/">> \o day \o <<"/">> \o year
      [] formatType = "dmy" -> day \o <<"/">> \o month \o <<"/">> \o year
      [] formatType = "ymd" -> year \o <<"/">> \o month \o <<"/">> \o day
      [] formatType = "dmy_dot" -> day \o <<".">> \o month \o <<".">> \o year
      [] formatType = "dmy_dash" -> day \o <<"-">> \o month \o <<"-">> \o year
      [] OTHER -> month \o <<"/">> \o day \o <<"/">> \o year

\* formatDateForInput; the empty sequence is the empty string
formatDateForInput(dateValue, formatType) ==
    IF dateValue = << >> THEN << >>
    ELSE LET parsed == parseDate(dateValue)
             year == IF Len(parsed.year) = 2 THEN <<"2", "0">> \o parsed.year
                     ELSE parsed.year
         IN  IF ~parsed.ok THEN << >>
             ELSE assembleDate(parsed.day, parsed.month, year, formatType)

\* the numbers 1..MaxDatePart occur as first and second part of a date
MaxDatePart == 13

\* n written in decimal, n < 100
toString(n) ==
    IF n < 10 THEN <<Digits[n + 1]>> ELSE <<Digits[(n \div 10) + 1], Digits[(n % 10) + 1]>>

DateParts ==
    {toString(n) : n \in 1..MaxDatePart}
        \cup {padStart2(toString(n)) : n \in 1..MaxDatePart}
        \cup {<<"a", "b">>}

DateYears == {<<"2", "4">>, <<"2", "0", "2", "4">>}

SeparatorPairs == {<<".", ".">>, <<"/", "/">>, <<"-", "-">>, <<".", "/">>, <<"/", ".">>}

\* the raw date values: three separated parts, and values of other shapes
DateValues ==
    {p1 \o <<sp[1]>> \o p2 \o <<sp[2]>> \o y :
        p1 \in DateParts, p2 \in DateParts, y \in DateYears, sp \in SeparatorPairs}
    \cup { << >>,
           <<"2", "5", "0", "3", "2", "4">>,
           <<"2", "5", "0", "3", "2", "0", "2", "4">>,
           <<"2", "5", "0", "3">>,
           <<"3", "/", "5">>,
           <<"1", "/", "2", "/", "3", "/", "2", "0", "2", "4">>,
           <<"a", "b", "c">> }

InitDate ==
    /\ \E dateValue \in DateValues, formatType \in DateFormats \cup {"iso"} :
          call = [op |-> "formatDateForInput", pc |-> "start", dateValue |-> dateValue,
                  formatType |-> formatType, result |-> << >>, again |-> << >>]
    /\ exchange = NoExchange
    /\ served = 0
    /\ okFills = 0
    /\ nextTimers = 0
    /\ dateTimers = [step \in 2..4 |-> 0]
    /\ nextClicks = << >>
    /\ build = "content.js"
    /\ profiles = ChainStore(1, NoNext)
    /\ run = [r \in Runs |-> IdleRun(FALSE)]
    /\ heap = << >>
    /\ deletes = 0

\* fillDateInput calls formatDateForInput(value, formatType)
Convert ==
    /\ call.op = "formatDateForInput"
    /\ call.pc = "start"
    /\ call' = [call EXCEPT !.pc = "once",
                            !.result = formatDateForInput(call.dateValue, call.formatType)]
    /\ UNCHANGED <<chainVars, pageVars>>

\* the converted string is stored and converted again for the same format
Reconvert ==
    /\ call.op = "formatDateForInput"
    /\ call.pc = "once"
    /\ call' = [call EXCEPT !.pc = "twice",
                            !.again = formatDateForInput(call.result, call.formatType)]
    /\ UNCHANGED <<chainVars, pageVars>>

NextDate == Convert \/ Reconvert

SpecDate == InitDate /\ [][NextDate]_vars

StableUnderReconversion(dateValue, formatType) ==
    LET parsed == parseDate(dateValue)
        dayOver == parseInt(parsed.day) > 12
        monthOver == parseInt(parsed.month) > 12
    IN  CASE formatType = "ymd" -> FALSE
          [] formatType \in {"dmy", "dmy_dash"} -> dayOver \/ parsed.day = parsed.month
          [] formatType = "dmy_dot" -> dayOver \/ ~monthOver \/ parsed.day = parsed.month
          [] OTHER -> ~monthOver \/ parsed.day = parsed.month

OnlySeparator(dateValue, sep) ==
    /\ includes(dateValue, <<sep>>)
    /\ \A other \in DateSeparators \ {sep} : ~includes(dateValue, <<other>>)

\* C16: for a value of three separated numeric parts, if the first part
\* exceeds 12 it is the day, else if the second exceeds 12 that one is the
\* day; if both are <= 12 the first part is the day when the separator is
\* '.', and the month when it is '/'; the result is day, month (padded to
\* two digits) and the four-digit year in the order and with the separator
\* of the target format.
C16_DayMonthRule ==
    (call.op = "formatDateForInput" /\ call.pc # "start") =>
        LET parts == splitDate(call.dateValue)
            numeric == Len(parts) = 3 /\ \A k \in 1..3 : parts[k] = removeNonDigits(parts[k])
            a == parseInt(parts[1])
            b == parseInt(parts[2])
            dayFirst == a > 12 \/ (b <= 12 /\ OnlySeparator(call.dateValue, "."))
            covered == a > 12 \/ b > 12 \/ OnlySeparator(call.dateValue, ".")
                          \/ OnlySeparator(call.dateValue, "/")
            day == padStart2(IF dayFirst THEN parts[1] ELSE parts[2])
            month == padStart2(IF dayFirst THEN parts[2] ELSE parts[1])
            year == IF Len(parts[3]) = 2 THEN <<"2", "0">> \o parts[3] ELSE parts[3]
            f == call.formatType
            sep == CASE f = "dmy_dot" -> <<".">> [] f = "dmy_dash" -> <<"-">> [] OTHER -> <<"/">>
            expected == IF f = "ymd" THEN year \o sep \o month \o sep \o day
                        ELSE IF f \in {"dmy", "dmy_dot", "dmy_dash"}
                        THEN day \o sep \o month \o sep \o year
                        ELSE month \o sep \o day \o sep \o year
        IN  (numeric /\ covered) => call.result = expected

\* 3.5.2024 is read day first, 3/5/2024 month first, 5/13/24 has day 13
C16_Witness ==
    /\ call.op = "formatDateForInput" /\ call.pc = "once"
    /\ call.formatType = "ymd"
    /\ \/ /\ call.dateValue = <<"3", ".", "5", ".", "2", "0", "2", "4">>
          /\ call.result = <<"2", "0", "2", "4", "/", "0", "5", "/", "0", "3">>
       \/ /\ call.dateValue = <<"3", "/", "5", "/", "2", "0", "2", "4">>
          /\ call.result = <<"2", "0", "2", "4", "/", "0", "3", "/", "0", "5">>

(***************************************************************************)
(* Filling one field of one element, with the values (SpecFill)            *)
(*                                                                         *)
(* An element is given by what the fillers read and write: whether its id  *)
(* contains 'datepicker', its role, its placeholder, its value, and        *)
(* whether focus() and click() on it raise.                                *)
(***************************************************************************)
\* the date detection of fillFieldByType
isDateFieldTypeOnly(element, fieldType) == fieldType = "date"

isDateField(element, fieldType) ==
    \/ fieldType = "date"
    \/ /\ element.role = "combobox"
       /\ element.placeholder # << >>
       /\ includes(toLowerCase(element.placeholder), <<"d", "a", "t", "e">>)
    \/ element.idHasDatepicker

\* the element as the outcome-level fillers see it
elemStateOf(element) ==
    IF element.raises THEN "throwsOnUse"
    ELSE IF isDateField(element, "") THEN "dateLike"
    ELSE "ok"

\* variant: the placeholder is not consulted
dateToInputDefaultFormat(element, value) ==
    LET formattedDate == formatDateForInput(value, "mdy")
    IN  IF formattedDate # << >> THEN formattedDate ELSE value

\* fillDateInput: const dateToInput = formattedDate || value
dateToInput(element, value) ==
    LET formatType == detectDateFormat(element.placeholder)
        formattedDate == formatDateForInput(value, formatType)
    IN  IF formattedDate # << >> THEN formattedDate ELSE value

\* the fillers that end in fillTextInput: the text cases and the default
writesText(fieldType) == fieldType \notin {"date", "radio", "checkbox", "select", "button"}

EmailValue == <<"a", "@", "b", ".", "c", "o", "m">>
SlashDate == <<"3", "/", "5", "/", "2", "0", "2", "4">>
WordsValue == <<"a", "b", "/", "c", "d", "/", "e", "f", "g", "h">>
FillValues ==
    { EmailValue, SlashDate, WordsValue,
      <<"3", "/", "5">>,
      <<"2", "5", "0", "3">>,
      <<"2", "5", ".", "1", "2", ".", "2", "0", "2", "4">> }

DayMonthYearHint == <<"(", "d", "d", "/", "m", "m", "/", "y", "y", "y", "y", ")">>
Placeholders ==
    { << >>, DayMonthYearHint, <<"D", "a", "t", "e">>,
      <<"d", "d", ".", "m", "m", ".", "y", "y", "y", "y">> }

FillElements ==
    [idHasDatepicker : BOOLEAN, role : {"", "combobox"}, placeholder : Placeholders,
     value : {<< >>, <<"o", "l", "d">>}, raises : BOOLEAN]

FillFields ==
    {[name |-> "Field", type |-> type, value |-> value] :
        type \in {"text", "date", "checkbox"}, value \in FillValues}

InitFill ==
    /\ \E fieldConfig \in FillFields, element \in FillElements :
          call = [op |-> "fillFieldByType", pc |-> "start", fieldConfig |-> fieldConfig,
                  element |-> element, before |-> element.value, ok |-> FALSE,
                  dateToInput |-> << >>, dispatched |-> << >>]
    /\ exchange = NoExchange
    /\ served = 0
    /\ okFills = 0
    /\ nextTimers = 0
    /\ dateTimers = [step \in 2..4 |-> 0]
    /\ nextClicks = << >>
    /\ build = "content.js"
    /\ profiles = ChainStore(1, NoNext)
    /\ run = [r \in Runs |-> IdleRun(FALSE)]
    /\ heap = << >>
    /\ deletes = 0

\* variant: fillDateInput assigns the date before it returns
FillFieldAssignsFirst ==
    /\ call.op = "fillFieldByType"
    /\ call.pc = "start"
    /\ LET out == fillFieldByType(elemStateOf(call.element), call.fieldConfig)
       IN  call' = [call EXCEPT
                      !.ok = out.ok,
                      !.pc = IF out.dateSeq THEN "step2" ELSE "done",
                      !.dateToInput = IF out.dateSeq
                                      THEN dateToInput(call.element, call.fieldConfig.value)
                                      ELSE << >>,
                      !.dispatched = IF out.dateSeq
                                     THEN <<"focus", "click", "value=''", "value=dateToInput">>
                                     ELSE << >>,
                      !.element.value =
                          IF out.dateSeq
                          THEN dateToInput(call.element, call.fieldConfig.value)
                          ELSE IF out.ok /\ writesText(call.fieldConfig.type)
                               THEN call.fieldConfig.value ELSE @]
    /\ UNCHANGED <<chainVars, pageVars>>

\* fillSingleField calls fillFieldByType(element, fieldConfig): up to its
\* return.  fillTextInput has assigned the value; fillDateInput has computed
\* dateToInput, focused and clicked the element and started its first timer.
\* dispatched is what fillDateInput and its timers did to the element.
FillField ==
    /\ call.op = "fillFieldByType"
    /\ call.pc = "start"
    /\ LET out == fillFieldByType(elemStateOf(call.element), call.fieldConfig)
       IN  call' = [call EXCEPT
                      !.ok = out.ok,
                      !.pc = IF out.dateSeq THEN "step2" ELSE "done",
                      !.dateToInput = IF out.dateSeq
                                      THEN dateToInput(call.element, call.fieldConfig.value)
                                      ELSE << >>,
                      !.dispatched = IF out.dateSeq THEN <<"focus", "click">> ELSE << >>,
                      !.element.value =
                          IF ~out.dateSeq /\ out.ok /\ writesText(call.fieldConfig.type)
                          THEN call.fieldConfig.value ELSE @]
    /\ UNCHANGED <<chainVars, pageVars>>

\* first timer of fillDateInput: the second click
SecondClick ==
    /\ call.op = "fillFieldByType"
    /\ call.pc = "step2"
    /\ call' = [call EXCEPT !.pc = "step3", !.dispatched = Append(@, "click")]
    /\ UNCHANGED <<chainVars, pageVars>>

\* second timer: element.value = ''; element.value = dateToInput; input, change
InputDate ==
    /\ call.op = "fillFieldByType"
    /\ call.pc = "step3"
    /\ call' = [call EXCEPT
                   !.pc = "step4",
                   !.element.value = call.dateToInput,
                   !.dispatched = @ \o <<"value=''", "value=dateToInput", "input", "change">>]
    /\ UNCHANGED <<chainVars, pageVars>>

\* third timer: Enter, Tab, blur
ConfirmDate ==
    /\ call.op = "fillFieldByType"
    /\ call.pc = "step4"
    /\ call' = [call EXCEPT
                   !.pc = "done",
                   !.dispatched = @ \o <<"keydown Enter", "keydown Tab", "blur">>]
    /\ UNCHANGED <<chainVars, pageVars>>

NextFill == FillField \/ SecondClick \/ InputDate \/ ConfirmDate

SpecFill == InitFill /\ [][NextFill]_vars

AutoDetectedDate(element) ==
    \/ element.idHasDatepicker
    \/ element.role = "combobox"
         /\ includes(toLowerCase(element.placeholder), <<"d", "a", "t", "e">>)

C14_AsStated ==
    (call.op = "fillFieldByType" /\ call.fieldConfig.type = "date"
        /\ call.element.placeholder = DayMonthYearHint /\ call.fieldConfig.value = SlashDate
        /\ call.pc \in {"step4", "done"}) =>
        /\ detectDateFormat(call.element.placeholder) = "dmy"
        /\ call.element.value = <<"0", "3", "/", "0", "5", "/", "2", "0", "2", "4">>

\* C14 amended: the date field with placeholder "(dd/mm/yyyy)" and value
\* "3/5/2024" is detected as day-month-year; the value is read month first
\* (slashes, both parts <= 12) and "05/03/2024" is written, by the second
\* timer of fillDateInput.
C14_SlashDateWritten ==
    (call.op = "fillFieldByType" /\ call.fieldConfig.type = "date"
        /\ call.element.placeholder = DayMonthYearHint /\ call.fieldConfig.value = SlashDate
        /\ ~call.element.raises /\ call.pc # "start") =>
        /\ detectDateFormat(call.element.placeholder) = "dmy"
        /\ call.ok
        /\ call.dateToInput = <<"0", "5", "/", "0", "3", "/", "2", "0", "2", "4">>
        /\ call.pc \in {"step2", "step3"} => call.element.value = call.before
        /\ call.pc \in {"step4", "done"} => call.element.value = call.dateToInput

C14_Witness ==
    /\ call.op = "fillFieldByType" /\ call.fieldConfig.type = "date"
    /\ call.element.placeholder = DayMonthYearHint /\ call.fieldConfig.value = SlashDate
    /\ call.pc = "done"
    /\ call.element.value = <<"0", "5", "/", "0", "3", "/", "2", "0", "2", "4">>

\* the raw date cannot be parsed: wrong number of parts, a part that is not
\* a number, or no separator and neither 6 nor 8 digits
Unparseable(dateValue) ==
    IF \E sep \in DateSeparators : includes(dateValue, <<sep>>)
    THEN LET parts == splitDate(dateValue)
         IN  \/ Len(parts) # 3
             \/ \E k \in 1..Len(parts) : parts[k] # removeNonDigits(parts[k])
    ELSE Len(removeNonDigits(dateValue)) \notin {6, 8}

\* C17 as stated: for a date field whose value cannot be parsed,
\* formatDateForInput returns '' and the raw value is written to the element.
C17_AsStated ==
    (call.op = "fillFieldByType" /\ call.fieldConfig.type = "date"
        /\ Unparseable(call.fieldConfig.value) /\ ~call.element.raises
        /\ call.pc \in {"step4", "done"}) =>
        /\ formatDateForInput(call.fieldConfig.value,
                              detectDateFormat(call.element.placeholder)) = << >>
        /\ call.element.value = call.fieldConfig.value

(***************************************************************************)
(* Fuzzy text matching: isFuzzyMatch, calculateSimilarity (SpecText)       *)
(***************************************************************************)
\* characters of the model's strings that are neither \w nor \s
Punctuation == {"!", ".", ",", "/", "-", "@", "(", ")"}

\* str.replace(/\s+/g, ' '), from position i
RECURSIVE collapseSpaces(_, _, _)
collapseSpaces(s, i, acc) ==
    IF i > Len(s) THEN acc
    ELSE IF s[i] = " " /\ acc # << >> /\ acc[Len(acc)] = " "
    THEN collapseSpaces(s, i + 1, acc)
    ELSE collapseSpaces(s, i + 1, Append(acc, s[i]))

\* str.trim()
RECURSIVE trim(_)
trim(s) ==
    IF s = << >> THEN s
    ELSE IF s[1] = " " THEN trim(Tail(s))
    ELSE IF s[Len(s)] = " " THEN trim(SubSeq(s, 1, Len(s) - 1))
    ELSE s

\* normalize of isFuzzyMatch
normalize(str) ==
    trim(collapseSpaces(SelectSeq(toLowerCase(str), LAMBDA c : c \notin Punctuation),
                        1, << >>))

Min3(x, y, z) == IF x <= y /\ x <= z THEN x ELSE IF y <= z THEN y ELSE z

\* levenshteinDistance: the entry matrix[str2.length][str1.length]
levenshteinDistance(str1, str2) ==
    LET matrix[i \in 0..Len(str2), j \in 0..Len(str1)] ==
            IF i = 0 THEN j
            ELSE IF j = 0 THEN i
            ELSE IF str2[i] = str1[j] THEN matrix[i - 1, j - 1]
            ELSE Min3(matrix[i - 1, j - 1] + 1, matrix[i, j - 1] + 1, matrix[i - 1, j] + 1)
    IN  matrix[Len(str2), Len(str1)]

\* Math.round(((len - distance) / len) * 100): rounds halves up
roundPercent(len, distance) == (200 * (len - distance) + len) \div (2 * len)

\* variant: the percentage is taken of the first argument's length
calculateSimilarityByFirst(str1, str2) ==
    IF str1 = str2 THEN 100
    ELSE IF Len(str1) = 0 \/ Len(str2) = 0 THEN 0
    ELSE roundPercent(Len(str1), levenshteinDistance(str1, str2))

calculateSimilarity(str1, str2) ==
    IF str1 = str2 THEN 100
    ELSE IF Len(str1) = 0 \/ Len(str2) = 0 THEN 0
    ELSE LET longer == IF Len(str1) > Len(str2) THEN str1 ELSE str2
             shorter == IF Len(str1) > Len(str2) THEN str2 ELSE str1
         IN  roundPercent(Len(longer), levenshteinDistance(longer, shorter))

\* variant: a similarity of 80 is a match
isFuzzyMatchAtLeast80(text1, text2) ==
    IF text1 = << >> \/ text2 = << >> THEN FALSE
    ELSE LET norm1 == normalize(text1)
             norm2 == normalize(text2)
         IN  \/ norm1 = norm2
             \/ includes(norm1, norm2) \/ includes(norm2, norm1)
             \/ calculateSimilarity(norm1, norm2) >= 80

isFuzzyMatch(text1, text2) ==
    IF text1 = << >> \/ text2 = << >> THEN FALSE
    ELSE LET norm1 == normalize(text1)
             norm2 == normalize(text2)
         IN  \/ norm1 = norm2
             \/ includes(norm1, norm2) \/ includes(norm2, norm1)
             \/ calculateSimilarity(norm1, norm2) > 80

\* plain words have at most MaxWordLen letters, texts with capitals, blanks
\* and punctuation at most MaxRawLen characters
MaxWordLen == 5
MaxRawLen == 3

RECURSIVE Strings(_, _)
Strings(alphabet, maxLen) ==
    IF maxLen = 0 THEN {<< >>}
    ELSE LET shorter == Strings(alphabet, maxLen - 1)
         IN  shorter \cup {Append(s, c) : s \in shorter, c \in alphabet}

Texts == Strings({"a", "b"}, MaxWordLen) \cup Strings({"a", "B", " ", "!"}, MaxRawLen)

InitText ==
    /\ \E op \in {"calculateSimilarity", "isFuzzyMatch"}, text1 \in Texts, text2 \in Texts :
          call = [op |-> op, done |-> FALSE, text1 |-> text1, text2 |-> text2,
                  similarity |-> 0, reverse |-> 0, match |-> FALSE]
    /\ exchange = NoExchange
    /\ served = 0
    /\ okFills = 0
    /\ nextTimers = 0
    /\ dateTimers = [step \in 2..4 |-> 0]
    /\ nextClicks = << >>
    /\ build = "content.js"
    /\ profiles = ChainStore(1, NoNext)
    /\ run = [r \in Runs |-> IdleRun(FALSE)]
    /\ heap = << >>
    /\ deletes = 0

\* calculateSimilarity is called on a pair of strings, in both orders
CalculateSimilarity ==
    /\ call.op = "calculateSimilarity"
    /\ ~call.done
    /\ call' = [call EXCEPT !.done = TRUE,
                            !.similarity = calculateSimilarity(call.text1, call.text2),
                            !.reverse = calculateSimilarity(call.text2, call.text1)]
    /\ UNCHANGED <<chainVars, pageVars>>

\* a radio strategy calls isFuzzyMatch(labelText, variantLower)
IsFuzzyMatch ==
    /\ call.op = "isFuzzyMatch"
    /\ ~call.done
    /\ call' = [call EXCEPT !.done = TRUE,
                            !.match = isFuzzyMatch(call.text1, call.text2)]
    /\ UNCHANGED <<chainVars, pageVars>>

NextText == CalculateSimilarity \/ IsFuzzyMatch

SpecText == InitText /\ [][NextText]_vars

\* C18: calculateSimilarity gives 100 for two identical non-empty strings,
\* the same value for (x, y) and (y, x), 0 when exactly one of the strings is
\* empty, and always a value in 0..100.
C18_Similarity ==
    (call.op = "calculateSimilarity" /\ call.done) =>
        /\ (call.text1 = call.text2 /\ call.text1 # << >>) => call.similarity = 100
        /\ call.similarity = call.reverse
        /\ ((call.text1 = << >>) # (call.text2 = << >>)) => call.similarity = 0
        /\ call.similarity \in 0..100

\* two different strings of different lengths scored 67 in both orders
C18_Witness ==
    /\ call.op = "calculateSimilarity" /\ call.done
    /\ call.text1 = <<"a", "b">>
    /\ call.text2 = <<"a", "b", "a">>
    /\ call.similarity = 67
    /\ call.reverse = 67

\* C19 as stated: isFuzzyMatch is true exactly when the normalized strings
\* are equal, or one contains the other, or their similarity is >= 80
\* (checked for calls with two non-empty arguments).
C19_AsStated ==
    (call.op = "isFuzzyMatch" /\ call.done
        /\ call.text1 # << >> /\ call.text2 # << >>) =>
        LET norm1 == normalize(call.text1)
            norm2 == normalize(call.text2)
        IN  call.match <=> \/ norm1 = norm2
                           \/ includes(norm1, norm2) \/ includes(norm2, norm1)
                           \/ calculateSimilarity(norm1, norm2) >= 80

\* C19 amended: isFuzzyMatch is false when one of its arguments is the empty
\* string; otherwise it is true exactly when the normalized strings are
\* equal, or one contains the other, or their similarity is greater than 80.
\* Two normalized strings with similarity exactly 80 (length 5 at edit
\* distance 1) do not match unless one contains the other.
C19_StrictThreshold ==
    (call.op = "isFuzzyMatch" /\ call.done) =>
        LET norm1 == normalize(call.text1)
            norm2 == normalize(call.text2)
        IN  IF call.text1 = << >> \/ call.text2 = << >> THEN ~call.match
            ELSE call.match <=> \/ norm1 = norm2
                                \/ includes(norm1, norm2) \/ includes(norm2, norm1)
                                \/ calculateSimilarity(norm1, norm2) > 80

\* two words of length 5 at edit distance 1 were compared and did not match
C19_Witness ==
    /\ call.op = "isFuzzyMatch" /\ call.done
    /\ call.text1 = <<"a", "b", "a", "b", "a">>
    /\ call.text2 = <<"a", "b", "a", "b", "b">>
    /\ calculateSimilarity(normalize(call.text1), normalize(call.text2)) = 80
    /\ ~call.match

(***************************************************************************)
(* Selecting a radio option: selectRadioOptionInContainer (SpecRadio)      *)
(*                                                                         *)
(* The container is the sequence of its options in document order.  An     *)
(* option has a label with a text and a radio input with a value           *)
(* attribute; the text sits in a span inside the label or directly in the  *)
(* label; the input passes isVisibleAndEditable or not.                    *)
(***************************************************************************)
\* [...new Set(variants)]: first occurrences, in order
RECURSIVE dedupe(_, _, _)
dedupe(variants, i, acc) ==
    IF i > Len(variants) THEN acc
    ELSE IF \E k \in 1..Len(acc) : acc[k] = variants[i]
    THEN dedupe(variants, i + 1, acc)
    ELSE dedupe(variants, i + 1, Append(acc, variants[i]))

createSearchVariants(text) ==
    LET titleCase == toUpperCase(SubSeq(text, 1, 1)) \o toLowerCase(SubSeq(text, 2, Len(text)))
        cleanText == trim(SelectSeq(text, LAMBDA c : c \notin Punctuation))
        variants == <<text, toLowerCase(text), toUpperCase(text), titleCase, trim(text)>>
                    \o (IF cleanText # text
                        THEN <<cleanText, toLowerCase(cleanText), toUpperCase(cleanText)>>
                        ELSE << >>)
    IN  SelectSeq(dedupe(variants, 1, << >>), LAMBDA v : Len(v) > 0)

\* the first of the matching positions, in document order; 0 if none
FirstOf(matching) ==
    IF matching = {} THEN 0 ELSE CHOOSE k \in matching : \A j \in matching : k <= j

\* strategy 1: for each variant in turn, the first label with a span whose
\* text contains the lower-cased variant
RECURSIVE strategy1(_, _, _)
strategy1(container, searchVariants, v) ==
    IF v > Len(searchVariants) THEN 0
    ELSE LET found == FirstOf({k \in DOMAIN container :
                         /\ container[k].textIn = "span"
                         /\ includes(toLowerCase(container[k].text),
                                     toLowerCase(searchVariants[v]))})
         IN  IF found # 0 THEN found ELSE strategy1(container, searchVariants, v + 1)

\* the test of strategies 2 and 3 on a lower-cased text
textMatches(text, searchVariants) ==
    \E v \in 1..Len(searchVariants) :
        LET variantLower == toLowerCase(searchVariants[v])
        IN  \/ text = variantLower
            \/ includes(text, variantLower)
            \/ isFuzzyMatch(text, variantLower)

\* strategy 2: the first label whose text matches a variant
strategy2(container, searchVariants) ==
    FirstOf({k \in DOMAIN container :
        textMatches(toLowerCase(trim(container[k].text)), searchVariants)})

\* strategy 3: the first span whose text matches a variant
strategy3(container, searchVariants) ==
    FirstOf({k \in DOMAIN container :
        /\ container[k].textIn = "span"
        /\ textMatches(toLowerCase(trim(container[k].text)), searchVariants)})

\* strategy 4: the first input whose value attribute is a variant, case
\* ignored
strategy4(container, searchVariants) ==
    FirstOf({k \in DOMAIN container :
        \E v \in 1..Len(searchVariants) :
            toLowerCase(container[k].value) = toLowerCase(searchVariants[v])})

\* clickRadioInput: the option checked afterwards (0: none)
clickRadioInput(container, k) ==
    IF container[k].usable THEN [ok |-> TRUE, checked |-> k]
    ELSE [ok |-> FALSE, checked |-> 0]

\* the first strategy that returns an input decides
selectRadioOptionInContainer(container, optionText) ==
    LET searchVariants == createSearchVariants(optionText)
        s1 == strategy1(container, searchVariants, 1)
        s2 == strategy2(container, searchVariants)
        s3 == strategy3(container, searchVariants)
        s4 == strategy4(container, searchVariants)
    IN  IF s1 # 0 THEN clickRadioInput(container, s1)
        ELSE IF s2 # 0 THEN clickRadioInput(container, s2)
        ELSE IF s3 # 0 THEN clickRadioInput(container, s3)
        ELSE IF s4 # 0 THEN clickRadioInput(container, s4)
        ELSE [ok |-> FALSE, checked |-> 0]

\* options per group
MaxOptions == 3

LabelYes == <<"Y", "e", "s">>
LabelNo == <<"N", "o">>
LabelNotYes == <<"N", "o", "t", " ", "y", "e", "s">>
OptionLabels == {LabelYes, LabelNo, LabelNotYes}

RadioOptions ==
    [text : OptionLabels, textIn : {"span", "label"}, value : {<<"o", "n">>, LabelYes},
     usable : BOOLEAN]

\* groups of 2..MaxOptions options with different labels
RadioGroups ==
    UNION {{g \in [1..n -> RadioOptions] :
                \A i, j \in 1..n : g[i].text = g[j].text => i = j} : n \in 2..MaxOptions}

OptionTexts == {LabelYes, LabelNo, <<"y", "e", "s", "!">>}

InitRadio ==
    /\ \E container \in RadioGroups, optionText \in OptionTexts :
          call = [op |-> "selectRadioOptionInContainer", done |-> FALSE,
                  container |-> container, optionText |-> optionText,
                  result |-> [ok |-> FALSE, checked |-> 0]]
    /\ exchange = NoExchange
    /\ served = 0
    /\ okFills = 0
    /\ nextTimers = 0
    /\ dateTimers = [step \in 2..4 |-> 0]
    /\ nextClicks = << >>
    /\ build = "content.js"
    /\ profiles = ChainStore(1, NoNext)
    /\ run = [r \in Runs |-> IdleRun(FALSE)]
    /\ heap = << >>
    /\ deletes = 0

\* fillRadioButton calls selectRadioOptionInContainer(container, value)
SelectRadioOption ==
    /\ call.op = "selectRadioOptionInContainer"
    /\ ~call.done
    /\ call' = [call EXCEPT !.done = TRUE,
                  !.result = selectRadioOptionInContainer(call.container, call.optionText)]
    /\ UNCHANGED <<chainVars, pageVars>>

NextRadio == SelectRadioOption

SpecRadio == InitRadio /\ [][NextRadio]_vars

\* C20 as stated: when the group has an option labelled exactly with the
\* supplied value (and the inputs are visible), that option's input is the
\* one checked, whatever the other labels and the order of the options.
C20_AsStated ==
    (call.op = "selectRadioOptionInContainer" /\ call.done
        /\ \A k \in DOMAIN call.container : call.container[k].usable) =>
        \A k \in DOMAIN call.container :
            call.container[k].text = call.optionText =>
                call.result.ok /\ call.result.checked = k

(***************************************************************************)
(* The profile editor: AutoFillManager (SpecEditor)                        *)
(*                                                                         *)
(* The editor works on this.profiles, the list it got with its latest      *)
(* getProfiles request, and on this.currentProfile, a copy of the profile  *)
(* being edited.  `profiles` is the store of the background script.        *)
(***************************************************************************)
\* profiles stored when the editor is opened
MaxStored == 2
\* profiles created in the editor in one behaviour
MaxCreated == 1

\* variant: only a successor that points straight back is refused
wouldCreateCircularChainDirect(ps, profileId, nextProfileId, visited) ==
    /\ nextProfileId \in DOMAIN ps
    /\ ps[nextProfileId].nextProfileId = profileId

\* AutoFillManager.wouldCreateCircularChain over the editor's list ps
RECURSIVE wouldCreateCircularChain(_, _, _, _)
wouldCreateCircularChain(ps, profileId, nextProfileId, visited) ==
    IF nextProfileId \in visited THEN TRUE
    ELSE IF nextProfileId \notin DOMAIN ps \/ ps[nextProfileId].nextProfileId = NoNext
    THEN FALSE
    ELSE IF ps[nextProfileId].nextProfileId = profileId THEN TRUE
    ELSE wouldCreateCircularChain(ps, profileId, ps[nextProfileId].nextProfileId,
                                  visited \cup {nextProfileId})

\* AutoFillBackground.saveProfile: replace the profile with this id, or add it
saveProfile(ps, profile) ==
    [id \in DOMAIN ps \cup {profile.id} |-> IF id = profile.id THEN profile ELSE ps[id]]

\* the options of the nextProfile dropdown: none, or another listed profile
NextProfileOptions(ps, currentProfile) == {NoNext} \cup (DOMAIN ps \ {currentProfile.id})

NoProfile == [id |-> 0, nextProfileId |-> NoNext, fields |-> << >>, usageCount |-> 0]

\* the id of the profile reached from `id` by `steps` nextProfileId edges,
\* NoNext where the chain ends before
RECURSIVE Follow(_, _, _)
Follow(ps, id, steps) ==
    IF steps = 0 \/ id \notin DOMAIN ps THEN id
    ELSE Follow(ps, ps[id].nextProfileId, steps - 1)

\* no stored profile is reached from itself along nextProfileId edges
Acyclic(ps) ==
    \A id \in DOMAIN ps : \A steps \in 1..Cardinality(DOMAIN ps) : Follow(ps, id, steps) # id

\* the stores the editor can be opened on: profiles 1..n, any successors
\* (stored, absent or none) that form no cycle
EditorStores ==
    LET Store(n, next) ==
            [id \in 1..n |-> [id |-> id, nextProfileId |-> next[id],
                              fields |-> << >>, usageCount |-> 0]]
        Stores(n) == {Store(n, next) : next \in [1..n -> {NoNext, GhostId} \cup 1..n]}
    IN  UNION {{ps \in Stores(n) : Acyclic(ps)} : n \in 1..MaxStored}

InitEditor ==
    /\ profiles \in EditorStores
    /\ call = [op |-> "editor", view |-> "main", profiles |-> profiles,
               currentProfile |-> NoProfile, created |-> 0, reloads |-> 0,
               status |-> ""]
    /\ exchange = NoExchange
    /\ served = 0
    /\ okFills = 0
    /\ nextTimers = 0
    /\ dateTimers = [step \in 2..4 |-> 0]
    /\ nextClicks = << >>
    /\ build = "background.js"
    /\ run = [r \in Runs |-> IdleRun(FALSE)]
    /\ heap = << >>
    /\ deletes = 0

\* createNewProfile: a profile with a new id (Date.now()) and no successor
CreateNewProfile ==
    /\ call.op = "editor" /\ call.view = "main"
    /\ call.created < MaxCreated
    /\ call' = [call EXCEPT !.view = "editor", !.created = @ + 1, !.status = "",
                  !.currentProfile = [NoProfile EXCEPT !.id = MaxStored + call.created + 1]]
    /\ UNCHANGED <<chainVars, pageVars>>

\* editProfile(index): a copy of a listed profile is edited
EditProfile ==
    /\ call.op = "editor" /\ call.view = "main"
    /\ \E id \in DOMAIN call.profiles :
          call' = [call EXCEPT !.view = "editor", !.status = "",
                               !.currentProfile = call.profiles[id]]
    /\ UNCHANGED <<chainVars, pageVars>>

\* saveProfile of the editor with the dropdown at nextProfileId.  `valid`:
\* a name is entered and the shortcut is free.  A request that is sent is
\* served by the background script; its response starts the reload timer.
SaveProfile ==
    /\ call.op = "editor" /\ call.view = "editor"
    /\ call.reloads < 1
    /\ \E valid \in BOOLEAN :
       \E nextProfileId \in NextProfileOptions(call.profiles, call.currentProfile) :
          IF ~valid
          THEN call' = [call EXCEPT !.status = "invalid"] /\ UNCHANGED profiles
          ELSE IF /\ nextProfileId # NoNext
                  /\ wouldCreateCircularChain(call.profiles, call.currentProfile.id,
                                              nextProfileId, {})
          THEN call' = [call EXCEPT !.status = "circular"] /\ UNCHANGED profiles
          ELSE LET saved == [call.currentProfile EXCEPT !.nextProfileId = nextProfileId]
               IN  /\ profiles' = saveProfile(profiles, saved)
                   /\ call' = [call EXCEPT !.currentProfile = saved, !.status = "saved",
                                           !.reloads = @ + 1]
    /\ UNCHANGED <<build, heap, run, deletes, pageVars>>

\* the timer started by a successful save: loadProfiles, then the main view
ReloadProfiles ==
    /\ call.op = "editor"
    /\ call.reloads > 0
    /\ call' = [call EXCEPT !.reloads = @ - 1, !.profiles = profiles, !.view = "main"]
    /\ UNCHANGED <<chainVars, pageVars>>

\* deleteProfileFromList(index): the background script removes the profile,
\* then the list is loaded again
DeleteFromList ==
    /\ call.op = "editor" /\ call.view = "main"
    /\ \E id \in DOMAIN call.profiles :
          /\ profiles' = deleteProfile(profiles, id)
          /\ call' = [call EXCEPT !.profiles = deleteProfile(profiles, id),
                                  !.status = "deleted"]
    /\ UNCHANGED <<build, heap, run, deletes, pageVars>>

NextEditor ==
    \/ CreateNewProfile
    \/ EditProfile
    \/ SaveProfile
    \/ ReloadProfiles
    \/ DeleteFromList

SpecEditor == InitEditor /\ [][NextEditor]_vars

LabelPattern(pattern) ==
    /\ pattern.anchor \in {"span", "div", "td", "label"}
    /\ pattern.step \in {"following[1]", "following-sibling"}
\* the element carries the field name in an attribute
AttributePattern(pattern) ==
    pattern.anchor \in {"@name", "@id", "@placeholder"} /\ pattern.step = "self"
\* the element is a child of a question container of the form platform
PlatformPattern(pattern) == pattern.step = "ancestor-questionItem-child"

\* C22: the list generateXPathSelector returns for the (name, type) of a
\* call is the same whatever the document is; in it every pattern is a
\* label, attribute or platform pattern for that name and that type's
\* element, all label patterns come before all attribute patterns, and the
\* question-container pattern is the last one and the only one of its kind.
\* findFieldElement evaluates the patterns in that order.
C22_CascadeOrder ==
    call.op = "findFieldElement" =>
        LET patterns == generateXPathSelector(call.fieldConfig.name, call.fieldConfig.type)
            n == Len(patterns)
            labels == {i \in 1..n : LabelPattern(patterns[i])}
            attributes == {i \in 1..n : AttributePattern(patterns[i])}
            platform == {i \in 1..n : PlatformPattern(patterns[i])}
            ranks == SelectSeq(call.result.evaluated, LAMBDA rank : rank # 0)
        IN  /\ labels \cup attributes \cup platform = 1..n
            /\ \A i \in 1..n :
                  /\ patterns[i].fieldName = call.fieldConfig.name
                  /\ patterns[i].elementType = getElementTypeForField(call.fieldConfig.type)
            /\ labels # {} /\ attributes # {}
            /\ \A i \in labels, j \in attributes : i < j
            /\ platform = {n}
            /\ \A k \in 1..Len(ranks) : ranks[k] = k

\* only the question-container pattern matched: it was tried after all others
C22_Witness ==
    /\ call.op = "findFieldElement" /\ call.done
    /\ call.result.patternIndex = NumPatterns
    /\ call.result.element # Null
    /\ PlatformPattern(generateXPathSelector(call.fieldConfig.name,
                                             call.fieldConfig.type)[NumPatterns])

\* the alternatives an element expression names (the operands of its unions)
UnionOperands(elementType) ==
    CASE elementType = "textarea" -> {"textarea"}
      [] elementType = "div[@role=\"radio\"]" -> {"div[@role=\"radio\"]"}
      [] elementType = "div[@role=\"checkbox\"]" -> {"div[@role=\"checkbox\"]"}
      [] elementType = "select | div[@role=\"listbox\"]" ->
            {"select", "div[@role=\"listbox\"]"}
      [] elementType = "input[@type=\"date\"]" -> {"input[@type=\"date\"]"}
      [] elementType = "input[@type=\"email\"] | input[@type=\"text\"]" ->
            {"input[@type=\"email\"]", "input[@type=\"text\"]"}
      [] elementType = "input[@type=\"number\"]" -> {"input[@type=\"number\"]"}
      [] elementType = "button | input[@type=\"button\"] | input[@type=\"submit\"] | div[@role=\"button\"]" ->
            {"button", "input[@type=\"button\"]", "input[@type=\"submit\"]",
             "div[@role=\"button\"]"}
      [] OTHER -> {"input"}
\* the tags and roles a field of a type may have
ListedTargets(fieldType) ==
    CASE fieldType = "radio" -> {"div[@role=\"radio\"]", "input[@type=\"radio\"]"}
      [] fieldType = "select" -> {"select", "div[@role=\"listbox\"]"}
      [] fieldType = "date" -> {"input[@type=\"text\"]", "input[@role=\"combobox\"]"}
      [] fieldType = "button" ->
            {"button", "input[@type=\"submit\"]", "input[@type=\"button\"]",
             "div[@role=\"button\"]"}
      [] OTHER -> {}

\* C23: the element expression the cascade searched with for the type of
\* the field names every tag and role listed for that type (radio: role
\* radio or a radio input; select: select or role listbox; date: a text or
\* combobox input; button: button, submit input, button input or role
\* button).
C23_AsStated ==
    (call.op = "findFieldElement" /\ call.done) =>
        ListedTargets(call.fieldConfig.type)
            \subseteq UnionOperands(getElementTypeForField(call.fieldConfig.type))

(***************************************************************************)
(* The date sequence (checked under SpecFill)                              *)
(***************************************************************************)
\* what happens to the element after fillDateInput has returned, in order
AfterReturn ==
    <<"click", "value=''", "value=dateToInput", "input", "change",
      "keydown Enter", "keydown Tab", "blur">>

\* the call took the date path
DateSequence == call.op = "fillFieldByType" /\ call.pc \in {"step2", "step3", "step4", "done"}
                    /\ call.dateToInput # << >>

\* C24: a fill that takes the date path has reported success when only
\* focus and the first click have happened; what happens afterwards is a
\* prefix of: second click, clear, assign the converted date, input, change,
\* Enter keydown, Tab keydown, blur; and the element keeps its old value
\* from the moment success is reported until the assignment.
C24_OptimisticDateFill ==
    DateSequence =>
        /\ call.ok
        /\ Len(call.dispatched) >= 2
        /\ SubSeq(call.dispatched, 1, 2) = <<"focus", "click">>
        /\ LET later == SubSeq(call.dispatched, 3, Len(call.dispatched))
           IN  /\ Len(later) <= Len(AfterReturn)
               /\ later = SubSeq(AfterReturn, 1, Len(later))
               /\ call.pc = "step2" => later = << >>
               /\ call.pc = "done" => later = AfterReturn
               /\ call.element.value =
                     IF \E k \in 1..Len(later) : later[k] = "value=dateToInput"
                     THEN call.dateToInput ELSE call.before

\* success is reported, the converted date differs from the element's value
\* and is not assigned yet
C24_Witness ==
    /\ DateSequence
    /\ call.pc = "step2"
    /\ call.ok
    /\ call.dateToInput # call.before
    /\ call.element.value = call.before

\* evaluating candidate `rank` runs into an exception of querySelector or
\* document.evaluate
Malformed(fieldConfig, d, rank) ==
    IF rank # 0 THEN d.patterns[rank].throws
    ELSE IF startsWithSlash(fieldConfig.selector) THEN d.xpath.throws
    ELSE \/ d.css.throws
         \/ /\ d.css.nodes = << >> \/ ~isVisibleAndEditable(Head(d.css.nodes))
            /\ d.xpath.throws

\* C25: a candidate (custom selector or generated pattern) whose evaluation
\* throws yields no element and does not end the search: when no candidate
\* before it yields an element, it is evaluated, the candidate after it is
\* evaluated too, and the call returns the element of the first later
\* candidate that yields one (null when none does).
C25_BadCandidateSkipped ==
    (call.op = "findFieldElement" /\ call.done) =>
        LET cands == Candidates(call.fieldConfig)
            Y(k) == Yield(call.fieldConfig, call.d, cands[k])
            res == call.result
        IN  \A k \in 1..Len(cands) :
                (/\ Malformed(call.fieldConfig, call.d, cands[k])
                 /\ \A m \in 1..(k - 1) : Y(m) = Null) =>
                    /\ Y(k) = Null
                    /\ Len(res.evaluated) >= k
                    /\ k < Len(cands) => Len(res.evaluated) >= k + 1
                    /\ \A j \in (k + 1)..Len(cands) :
                          (Y(j) # Null /\ \A m \in (k + 1)..(j - 1) : Y(m) = Null)
                              => res.element = Y(j)
                    /\ (\A j \in (k + 1)..Len(cands) : Y(j) = Null)
                              => res.element = Null

\* the custom selector and pattern 4 throw, pattern 5 yields the element
C25_Witness ==
    /\ call.op = "findFieldElement" /\ call.done
    /\ call.fieldConfig.selector = "//xpath"
    /\ call.d.xpath = Throws
    /\ call.d.patterns[4] = Throws
    /\ call.d.patterns[5] = Matches(<<Node(1, TRUE)>>)
    /\ call.result.element = Node(1, TRUE)
    /\ call.result.evaluated = <<0, 1, 2, 3, 4, 5>>

MatchSet(fieldConfig, d, rank) ==
    LET nodesOf(evaluation) ==
            IF evaluation.throws THEN {}
            ELSE {evaluation.nodes[k] : k \in 1..Len(evaluation.nodes)}
    IN  IF rank # 0 THEN nodesOf(d.patterns[rank])
        ELSE IF startsWithSlash(fieldConfig.selector) THEN nodesOf(d.xpath)
        ELSE nodesOf(d.css) \cup nodesOf(d.xpath)

\* C30: when some candidate of the call matches a visible and editable
\* element, whether or not a hidden one comes before it among the matches
\* of that candidate, findFieldElement returns an element.
C30_AsStated ==
    (call.op = "findFieldElement" /\ call.done) =>
        LET cands == Candidates(call.fieldConfig)
        IN  (\E k \in 1..Len(cands) :
                \E node \in MatchSet(call.fieldConfig, call.d, cands[k]) :
                    isVisibleAndEditable(node))
                => call.result.element # Null

(***************************************************************************)
(* A chain run and the page of its tab.  The controller and the content    *)
(* script are two processes: a request and its response are messages in    *)
(* flight, and each setTimeout callback runs in its own event loop, no     *)
(* earlier than its delay but at no fixed time after it.                   *)
(***************************************************************************)
NoResponse == ErrorResponse("")

InitTab ==
    /\ build \in Builds
    /\ \E n \in 1..3 : profiles = ChainStore(n, NoNext)
    /\ run = [r \in Runs |-> IdleRun(r = 1)]
    /\ heap = << >>
    /\ deletes = 0
    /\ exchange = NoExchange
    /\ served = 0
    /\ okFills = 0
    /\ nextTimers = 0
    /\ dateTimers = [step \in 2..4 |-> 0]
    /\ nextClicks = << >>
    /\ call = [op |-> "tab", response |-> NoResponse, unclicked |-> 0]

\* the listener of the page gets the fill request of run r, fills (a page
\* without date controls) and calls sendResponse; unclicked is the number
\* of proceed-click timers of earlier fills that have not fired when the
\* fill starts
PageServes(r) ==
    /\ call.op = "tab"
    /\ run[r].pc = "awaiting"
    /\ call.response = NoResponse
    /\ LET request == [action |-> SentAction(build), profile |-> run[r].profile]
       IN  \E env \in [1..Len(run[r].profile.fields) -> ElemStates \ {"dateLike"}] :
              LET out == Listener(request, env)
              IN  /\ exchange' = [action |-> request.action,
                                   fields |-> request.profile.fields, env |-> env,
                                   pending |-> FillPending, report |-> out.report]
                  /\ served' = served + 1
                  /\ okFills' = okFills + (IF out.report.kind = "report"
                                                /\ out.report.filled > 0
                                           THEN 1 ELSE 0)
                  /\ nextTimers' = nextTimers + (IF out.nextTimer THEN 1 ELSE 0)
                  /\ call' = [call EXCEPT !.response = out.report,
                                          !.unclicked = nextTimers]
    /\ UNCHANGED <<dateTimers, nextClicks, chainVars>>

\* the sendMessage callback of run r resolves with the response
ResponseArrives(r) ==
    /\ call.op = "tab"
    /\ run[r].pc = "awaiting"
    /\ call.response # NoResponse
    /\ AfterResponse(r, call.response)
    /\ call' = [call EXCEPT !.response = NoResponse]
    /\ UNCHANGED <<build, heap, deletes, pageVars>>

NextTab ==
    \/ \E r \in Runs : StartRun(r)
    \/ \E r \in Runs : PageServes(r)
    \/ \E r \in Runs : ResponseArrives(r)
    \/ \E r \in Runs : TimerFires(r)
    \/ NextTimerFires

SpecTab == InitTab /\ [][NextTab]_vars

(***************************************************************************)
(* Properties of the chain controller and the page together                *)
(***************************************************************************)
\* C27: the response a chain run gets from the page to a fill request for a
\* stored profile is a fill report, never the listener's 'Unknown action'
\* error.
C27_AsStated ==
    \A r \in Runs :
        run[r].lastResp.kind \in {"report", "error"} =>
            run[r].outcome # "Unknown action"

\* C28: when the page starts the fill of a successor profile of a chain,
\* the proceed-click timer started by the fill of the preceding profile has
\* fired.
C28_AsStated ==
    (call.op = "tab" /\ \E r \in Runs : Len(run[r].executed) >= 2) =>
        call.unclicked = 0

\* C29: a chain run with a fill request outstanding or a continuation timer
\* pending eventually has neither, whatever the profile graph (cyclic,
\* longer than 10 profiles, with dangling or deleted successors) and whatever
\* the responses and message errors are.
C29_Terminates ==
    \A r \in Runs : (run[r].pc \in {"awaiting", "timer"}) ~> (run[r].pc = "done")

\* a run on a chain of more than 10 profiles that leads back to its start
\* is over after 10 executions
C29_Witness ==
    \E r \in Runs :
        /\ run[r].pc = "done"
        /\ Len(run[r].executed) = MaxChainDepth
        /\ Cardinality(DOMAIN profiles) > MaxChainDepth
        /\ profiles[Cardinality(DOMAIN profiles)].nextProfileId = run[r].executed[1]
====
